---- MODULE Spec2Model ----
(***************************************************************************)
(* Model of the gospring IoC container (container.Container), its          *)
(* lifecycle manager (lifecycle.LifecycleManager) and the application      *)
(* context facade (context.ApplicationContext).                            *)
(*                                                                         *)
(* Bean instances are pointers to structs.  The heap maps the addresses    *)
(* in use to struct values; an object reference is an address, Nil is the  *)
(* nil interface value.  The first PoolSize objects are the instances the  *)
(* application constructs and hands to the container; objects after them   *)
(* are the ones reflect.New allocates for prototype beans.                 *)
(***************************************************************************)
EXTENDS Integers, Sequences, FiniteSets, TLC

\* ---------------------------------------------------------------- bounds
MaxRegs == 3      \* successful registrations in one behaviour
MaxStarts == 2    \* Start() calls that get past the started check
MaxAlloc == 8     \* prototype instances allocated and not yet collected
MaxComponents == 3  \* components handed to one RegisterComponents call
MaxThreads == 2   \* goroutines calling into one container concurrently

\* ------------------------------------------------------- static universe
Names == {"a", "b", "c"}
Nil == 0

\* reflect.Type values: *T, T and interface types
Ptr(T) == <<"ptr", T>>
Elem(T) == <<"struct", T>>
Iface(I) == <<"iface", I>>

StructTypes == {"Repo", "Svc", "Res", "Job"}
Interfaces == {"IRepo"}
TypeRefs == {Ptr(T) : T \in StructTypes} \cup {Elem(T) : T \in StructTypes}
              \cup {Iface(I) : I \in Interfaces}

\* Method sets of the component types (signature of the method named m on
\* *T): "err" is func() error, "void" is func(), "arg" takes an argument,
\* "none" means *T has no such method.
MethodSig(T, m) ==
  CASE T = "Repo" /\ m \in {"Init", "PostConstruct", "PreDestroy", "Destroy"} -> "err"
    [] T = "Repo" /\ m = "SetBeanName" -> "arg"
    [] T = "Svc" /\ m = "Init" -> "err"
    [] T = "Svc" /\ m = "Close" -> "err"
    [] T = "Res" /\ m \in {"Initialize", "CustomInit", "CustomDestroy"} -> "err"
    [] T = "Res" /\ m = "Destroy" -> "void"
    [] OTHER -> "none"

\* reflect.Type.Implements: the interfaces *T satisfies
Implements(T, I) == T = "Repo" /\ I = "IRepo"

\* Struct fields carrying an inject tag, in declaration order.
Fields(T) ==
  IF T = "Svc"
  THEN << [tag |-> "a",    ftype |-> Ptr("Repo"),    settable |-> TRUE],
          [tag |-> "true", ftype |-> Iface("IRepo"), settable |-> TRUE],
          [tag |-> "",     ftype |-> Ptr("Repo"),    settable |-> TRUE],
          [tag |-> "c",    ftype |-> Ptr("Repo"),    settable |-> FALSE] >>
  ELSE << >>

\* The component, singleton and scope struct tags of the fields that carry
\* any of them, in declaration order ("" for a tag the field does not have).
StructTags(T) ==
  CASE T = "Res" -> << [component |-> "b", singleton |-> "true", scope |-> ""] >>
    [] T = "Job" -> << [component |-> "c", singleton |-> "", scope |-> "prototype"] >>
    [] OTHER -> << >>

\* reflect.Type.Name() of the struct types, lower-cased and as a suffix test
LowerName(T) ==
  CASE T = "Repo" -> "repo" [] T = "Svc" -> "svc" [] T = "Res" -> "res" [] T = "Job" -> "job"
HasComponentSuffix(T) == FALSE

\* init-method / destroy-method struct tags, in field order
InitMethodTags(T) == IF T = "Res" THEN << "CustomInit" >> ELSE << >>
DestroyMethodTags(T) == IF T = "Res" THEN << "CustomDestroy" >> ELSE << >>

\* The instances the application constructs: their struct type and the
\* hooks that return an error (initError / destroyError of the fixtures).
PoolType(o) ==
  CASE o \in {1, 2, 3} -> "Repo"
    [] o = 4 -> "Svc"
    [] o = 5 -> "Res"
    [] o = 6 -> "Job"

FailingHooks(o) ==
  CASE o = 2 -> {"Init", "PreDestroy"}
    [] o = 3 -> {"Destroy"}
    [] OTHER -> {}

Pool == {1, 2, 3, 4, 5, 6}
PoolSize == Cardinality(Pool)

\* what the application registers: <<name, instance>> for RegisterSingleton
\* and RegisterPrototype, <<interface, name, instance>> for RegisterByInterface
SingletonInputs == {<<"a", 1>>, <<"b", 2>>, <<"b", 4>>, <<"c", 3>>, <<"c", 5>>}
PrototypeInputs == {<<"a", 1>>, <<"b", 4>>}
InterfaceInputs == {<<"IRepo", "a", 1>>, <<"IRepo", "b", 4>>, <<"IRepo", "c", 1>>}
\* the components the application registers through RegisterBean, as
\* <<name, instance>>
BeanInputs == {<<"a", 1>>, <<"b", 5>>, <<"b", 6>>, <<"c", 6>>}
\* the instances the application hands to RegisterComponent
ComponentInputs == {6}
\* what the application registers by interface through the context
ContextInterfaceInputs == {<<"IRepo", "c", 1>>}

\* the goroutines, and what they call concurrently: registrations as
\* <<name, instance>>, lookups by name and by type
Threads == 1..MaxThreads
ConcRegisterInputs == {<<"a", 1>>, <<"a", 5>>}
ConcNames == {"a", "b"}
ConcTypes == {Ptr("Repo"), Iface("IRepo")}
\* concurrent registrations by interface, as <<interface, name, instance>>
ConcInterfaceInputs == {<<"IRepo", "a", 2>>, <<"IRepo", "a", 5>>}

\* addresses reflect.New can return
AllocIds == (PoolSize + 1)..(PoolSize + MaxAlloc)

ZeroFields(T) == [i \in 1..Len(Fields(T)) |-> Nil]

\* ------------------------------------------------------------------ state
VARIABLES
  beans,         \* Container.beans: name -> BeanDefinition
  typeMapping,   \* Container.typeMapping: reflect.Type -> name
  heap,          \* the structs behind the instances: type and inject fields
  initOrder,     \* LifecycleManager.initOrder
  destroyOrder,  \* LifecycleManager.destroyOrder
  started,       \* ApplicationContext.started
  logger,        \* Container.logger: the sink the container reports to
  mutex,         \* Container.mutex: the read-write lock
  threads,       \* the goroutines calling into the container: call and position
  regOrder,      \* history: successful registrations since the registry was last empty
  regs,          \* history: number of successful registrations
  starts,        \* history: number of Start() calls past the started check
  last,          \* the last call made and what it returned
  log            \* hook methods invoked by the last call, in order

vars == <<beans, typeMapping, heap, initOrder, destroyOrder, started, logger,
          mutex, threads, regOrder, regs, starts, last, log>>

\* dynamic type of a non-nil instance: always a pointer to its struct
TypeOf(h, o) == Ptr(h[o].type)

\* reflect.Type.AssignableTo for a *T value and a field type
AssignableTo(T, ftype) ==
  \/ ftype = Ptr(T)
  \/ \E I \in Interfaces : ftype = Iface(I) /\ Implements(T, I)

\* what a call returned
Result(op, name, inst, typ, err, errBean, ret) ==
  [op |-> op, name |-> name, inst |-> inst, typ |-> typ,
   err |-> err, errBean |-> errBean, ret |-> ret]

NoType == <<"none", "">>

\* sequencing: e is evaluated once and F applied to its value
With(e, F(_)) == CHOOSE y \in {F(x) : x \in {e}} : TRUE

\* ------------------------------------------------------------- Container
\* The sinks an application can give the container: the console logger,
\* whose LogEvent returns, and a sink whose LogEvent panics.
Loggers == {"console", "panicking"}

\* c.logger.LogEvent(event) does not return: the panic unwinds the caller
LogEventPanics(c) == c.logger = "panicking"

\* registerBean whose registerInterfaces maps every interface the type
\* implements
registerBeanStructural(c, h, name, instance, singleton) ==
  IF name \in DOMAIN c.beans
  THEN [c |-> c, err |-> "duplicate"]
  ELSE LET T == h[instance].type
           mapped == {Elem(T), Ptr(T)} \cup {Iface(I) : I \in {J \in Interfaces : Implements(T, J)}}
       IN [c |-> [beans |-> [n \in DOMAIN c.beans \cup {name} |->
                               IF n = name
                               THEN [Type |-> T, Singleton |-> singleton,
                                     Instance |-> instance]
                               ELSE c.beans[n]],
                  typeMapping |-> [t \in DOMAIN c.typeMapping \cup mapped |->
                                     IF t \in mapped THEN name ELSE c.typeMapping[t]]],
           err |-> ""]

\* registerBean that keeps the type mapping of an earlier bean
registerBeanKeepFirst(c, h, name, instance, singleton) ==
  IF name \in DOMAIN c.beans
  THEN [c |-> c, err |-> "duplicate"]
  ELSE LET T == h[instance].type
       IN [c |-> [beans |-> [n \in DOMAIN c.beans \cup {name} |->
                               IF n = name
                               THEN [Type |-> T, Singleton |-> singleton,
                                     Instance |-> instance]
                               ELSE c.beans[n]],
                  typeMapping |-> [t \in DOMAIN c.typeMapping \cup {Elem(T), Ptr(T)} |->
                                     IF t \in DOMAIN c.typeMapping
                                     THEN c.typeMapping[t] ELSE name]],
           err |-> ""]

\* registerBean without the check for an existing name
registerBeanOverwrite(c, h, name, instance, singleton) ==
  LET typ == Elem(h[instance].type)
      originalType == TypeOf(h, instance)
      beanDef == [Type |-> h[instance].type, Singleton |-> singleton,
                  Instance |-> instance]
  IN [c |-> [beans |-> [n \in DOMAIN c.beans \cup {name} |->
                          IF n = name THEN beanDef ELSE c.beans[n]],
             typeMapping |-> [t \in DOMAIN c.typeMapping \cup {typ, originalType} |->
                                IF t \in {typ, originalType} THEN name
                                ELSE c.typeMapping[t]]],
      err |-> ""]

\* registerBean: the container after the call and the error it returns
\* ("panic" when the call does not return because the sink panicked)
registerBean(c, h, name, instance, singleton) ==
  IF name \in DOMAIN c.beans
  THEN [c |-> c, err |-> "duplicate"]
  ELSE LET typ == Elem(h[instance].type)
           originalType == TypeOf(h, instance)
           beanDef == [Type |-> h[instance].type, Singleton |-> singleton,
                       Instance |-> instance]
           tm1 == [t \in DOMAIN c.typeMapping \cup {typ} |->
                     IF t = typ THEN name ELSE c.typeMapping[t]]
           tm2 == [t \in DOMAIN tm1 \cup {originalType} |->
                     IF t = originalType THEN name ELSE tm1[t]]
       IN [c |-> [beans |-> [n \in DOMAIN c.beans \cup {name} |->
                               IF n = name THEN beanDef ELSE c.beans[n]],
                  typeMapping |-> tm2],
           err |-> IF LogEventPanics(c) THEN "panic" ELSE ""]

\* RegisterByInterface that binds the interface whatever RegisterSingleton returns
RegisterByInterfaceBindAlways(c, h, interfaceType, implementation, name) ==
  IF ~Implements(h[implementation].type, interfaceType)
  THEN [c |-> c, err |-> "not_implemented"]
  ELSE LET r == registerBean(c, h, name, implementation, TRUE)
       IN [c |-> [beans |-> r.c.beans,
                  typeMapping |->
                    [t \in DOMAIN r.c.typeMapping \cup {Iface(interfaceType)} |->
                       IF t = Iface(interfaceType) THEN name
                       ELSE r.c.typeMapping[t]]],
           err |-> r.err]

\* RegisterByInterface: Implements check, RegisterSingleton, then bind the interface
RegisterByInterfaceOp(c, h, interfaceType, implementation, name) ==
  IF ~Implements(h[implementation].type, interfaceType)
  THEN [c |-> c, err |-> "not_implemented"]
  ELSE LET r == registerBean(c, h, name, implementation, TRUE)
       IN IF r.err # ""
          THEN r
          ELSE [c |-> [beans |-> r.c.beans,
                       typeMapping |->
                         [t \in DOMAIN r.c.typeMapping \cup {Iface(interfaceType)} |->
                            IF t = Iface(interfaceType) THEN name
                            ELSE r.c.typeMapping[t]]],
                err |-> ""]

\* the lowest free address
NewId(h) == CHOOSE o \in AllocIds \ DOMAIN h : \A p \in AllocIds \ DOMAIN h : o <= p

\* objects reachable from the roots through inject fields
RECURSIVE Reach(_, _)
Reach(h, S) ==
  LET T == S \cup (UNION {{h[o].fields[i] : i \in DOMAIN h[o].fields} : o \in S} \ {Nil})
  IN IF T = S THEN S ELSE Reach(h, T)

\* garbage collection: the application keeps the pool instances and the
\* value the last call returned
Collect(h, ret) ==
  LET live == Reach(h, (Pool \cup {ret}) \ {Nil})
  IN [o \in live |-> h[o]]

\* the inject fields of the objects that have any
Wiring(h) == [o \in {p \in DOMAIN h : h[p].fields # << >>} |-> h[o].fields]

\* The threaded state of a call: the heap, the lifecycle logs, the hooks
\* invoked, the error InjectDependencies returned ("" for nil), and
\* ok = FALSE once the allocation bound is exhausted.
St(h, io, do) == [heap |-> h, initOrder |-> io, destroyOrder |-> do,
                  log |-> << >>, err |-> "", ok |-> TRUE]

RECURSIVE GetBean(_, _, _)
RECURSIVE GetBeanByType(_, _, _)
RECURSIVE createNewInstance(_, _, _)
RECURSIVE InjectFrom(_, _, _, _)
RECURSIVE InjectDependencies(_, _, _)

\* GetBean that creates a new instance for every scope
GetBeanAlwaysNew(c, name, st) ==
  IF name \notin DOMAIN c.beans
  THEN [st |-> st, val |-> Nil]
  ELSE createNewInstance(c, c.beans[name], st)

\* GetBean: nil when absent, the stored instance for a singleton, a new
\* instance for a prototype
GetBean(c, name, st) ==
  IF name \notin DOMAIN c.beans
  THEN [st |-> st, val |-> Nil]
  ELSE IF c.beans[name].Singleton
       THEN [st |-> st, val |-> c.beans[name].Instance]
       ELSE createNewInstance(c, c.beans[name], st)

\* GetBeanByType that resolves no pointer type
GetBeanByTypeElemOnly(c, typ, st) ==
  IF typ \notin DOMAIN c.typeMapping \/ typ = Ptr(typ[2])
  THEN [st |-> st, val |-> Nil]
  ELSE GetBean(c, c.typeMapping[typ], st)

\* GetBeanByType: one indirection through typeMapping, then GetBean
GetBeanByType(c, typ, st) ==
  IF typ \notin DOMAIN c.typeMapping
  THEN [st |-> st, val |-> Nil]
  ELSE GetBean(c, c.typeMapping[typ], st)

\* createNewInstance: reflect.New(beanDef.Type), then InjectDependencies,
\* whose result is dropped, then the ComponentCreated event
createNewInstance(c, beanDef, st) ==
  IF ~st.ok \/ AllocIds \subseteq DOMAIN st.heap
  THEN [st |-> [st EXCEPT !.ok = FALSE], val |-> Nil]
  ELSE LET newInstance == NewId(st.heap)
           st1 == [st EXCEPT !.heap =
                     [o \in DOMAIN @ \cup {newInstance} |->
                        IF o = newInstance
                        THEN [type |-> beanDef.Type, fields |-> ZeroFields(beanDef.Type)]
                        ELSE @[o]]]
       IN With(InjectDependencies(c, newInstance, st1), LAMBDA inj :
            IF inj.err = "panic"
            THEN [st |-> inj, val |-> Nil]
            ELSE IF LogEventPanics(c)
                 THEN [st |-> [inj EXCEPT !.err = "panic"], val |-> Nil]
                 ELSE [st |-> [inj EXCEPT !.err = st1.err], val |-> newInstance])

\* the field loop of InjectDependencies, from field i on; an injection and
\* a dependency not found are reported to the sink
InjectFrom(c, instance, i, st) ==
  LET fs == Fields(st.heap[instance].type)
  IN IF i > Len(fs) \/ ~st.ok \/ st.err = "panic"
     THEN st
     ELSE LET f == fs[i]
          IN IF f.tag = "" \/ ~f.settable
             THEN InjectFrom(c, instance, i + 1, st)
             ELSE With(IF f.tag # "true"
                       THEN GetBean(c, f.tag, st)
                       ELSE GetBeanByType(c, f.ftype, st),
                       LAMBDA r :
                         InjectFrom(c, instance, i + 1,
                           IF r.st.err = "panic"
                           THEN r.st
                           ELSE IF r.val # Nil
                           THEN IF AssignableTo(r.st.heap[r.val].type, f.ftype)
                                THEN [r.st EXCEPT !.heap[instance].fields[i] = r.val,
                                                  !.err = IF LogEventPanics(c)
                                                          THEN "panic" ELSE @]
                                ELSE r.st
                           ELSE [r.st EXCEPT !.err = IF LogEventPanics(c)
                                                     THEN "panic" ELSE @]))

\* InjectDependencies that sets no field
InjectDependenciesNone(c, instance, st) == st

\* InjectDependencies that returns an error when a field it processed is
\* left nil
InjectDependenciesStrict(c, instance, st) ==
  With(InjectFrom(c, instance, 1, st), LAMBDA s :
    IF \E i \in DOMAIN Fields(s.heap[instance].type) :
         /\ Fields(s.heap[instance].type)[i].tag # ""
         /\ Fields(s.heap[instance].type)[i].settable
         /\ s.heap[instance].fields[i] = Nil
    THEN [s EXCEPT !.err = "inject"]
    ELSE s)

\* InjectDependencies: the field loop; the error returned is always nil
InjectDependencies(c, instance, st) == InjectFrom(c, instance, 1, st)

\* WireAll: InjectDependencies on the stored instance of every bean, in the
\* order the map iteration yields them
RECURSIVE WireAllFrom(_, _, _, _)
WireAllFrom(c, order, i, st) ==
  IF i > Len(order)
  THEN st
  ELSE With(InjectDependencies(c, c.beans[order[i]].Instance, st),
            LAMBDA s : IF s.err # "" THEN s
                       ELSE WireAllFrom(c, order, i + 1, s))

WireAll(c, order, st) == WireAllFrom(c, order, 1, st)

\* the orders in which a range over a Go map can yield a set of keys
MapOrders(S) ==
  {s \in [1..Cardinality(S) -> S] : \A i, j \in 1..Cardinality(S) : i # j => s[i] # s[j]}

\* the container's own destroy loop: Destroy() of every stored instance
\* that has a Destroy method without result and the ComponentDestroyed
\* event, in map order
RECURSIVE DestroyFrom(_, _, _, _)
DestroyFrom(c, order, i, st) ==
  IF i > Len(order) \/ st.err = "panic"
  THEN st
  ELSE LET beanDef == c.beans[order[i]]
       IN With(IF MethodSig(beanDef.Type, "Destroy") = "void"
               THEN [st EXCEPT !.log = Append(@, [bean |-> order[i],
                                                  obj |-> beanDef.Instance,
                                                  m |-> "Destroy", err |-> FALSE,
                                                  wiring |-> Wiring(st.heap),
                                                  by |-> "Container"])]
               ELSE st,
               LAMBDA s : DestroyFrom(c, order, i + 1,
                            IF LogEventPanics(c) THEN [s EXCEPT !.err = "panic"] ELSE s))

\* ------------------------------------------------------ LifecycleManager
\* does hook m of the instance return a non-nil error
Fails(st, instance, m) ==
  /\ instance \in Pool
  /\ MethodSig(st.heap[instance].type, m) = "err"
  /\ m \in FailingHooks(instance)

\* invoke hook m of the instance: the call, its outcome, the inject fields
\* the hook finds and the caller are logged
Call(st, beanName, instance, m) ==
  [st EXCEPT !.log = Append(@, [bean |-> beanName, obj |-> instance, m |-> m,
                                err |-> Fails(st, instance, m),
                                wiring |-> Wiring(st.heap),
                                by |-> "LifecycleManager"])]

\* a method found by MethodByName that takes no argument
Callable(T, m) == MethodSig(T, m) \in {"err", "void"}

\* the first method of the list that reflection finds callable, or ""
RECURSIVE FirstCallable(_, _, _)
FirstCallable(T, methods, i) ==
  IF i > Len(methods) THEN ""
  ELSE IF Callable(T, methods[i]) THEN methods[i]
  ELSE FirstCallable(T, methods, i + 1)

\* the tagged methods of callInitMethod / callDestroyMethod, from tag i on
RECURSIVE CallTagged(_, _, _, _, _)
CallTagged(st, beanName, instance, tags, i) ==
  IF i > Len(tags)
  THEN [st |-> st, err |-> FALSE]
  ELSE IF MethodSig(st.heap[instance].type, tags[i]) = "none"
       THEN CallTagged(st, beanName, instance, tags, i + 1)
       ELSE With(Call(st, beanName, instance, tags[i]), LAMBDA s1 :
              IF Fails(s1, instance, tags[i])
              THEN [st |-> s1, err |-> TRUE]
              ELSE CallTagged(s1, beanName, instance, tags, i + 1))

\* the convention method, then the tagged methods
CallByConvention(st, beanName, instance, methods, tags) ==
  LET m == FirstCallable(st.heap[instance].type, methods, 1)
      s1 == IF m # "" THEN Call(st, beanName, instance, m) ELSE st
  IN IF m # "" /\ Fails(s1, instance, m)
     THEN [st |-> s1, err |-> TRUE]
     ELSE CallTagged(s1, beanName, instance, tags, 1)

\* callInitMethod whose convention list always holds Init and PostConstruct
callInitMethodAll(st, beanName, instance) ==
  LET T == st.heap[instance].type
      initMethods == << "Init", "Initialize", "AfterPropertiesSet", "PostConstruct" >>
  IN CallByConvention(st, beanName, instance, initMethods, InitMethodTags(T))

callInitMethod(st, beanName, instance) ==
  LET T == st.heap[instance].type
      initMethods ==
        (IF MethodSig(T, "Init") # "err" THEN << "Init" >> ELSE << >>)
        \o << "Initialize", "AfterPropertiesSet" >>
        \o (IF MethodSig(T, "PostConstruct") # "err" THEN << "PostConstruct" >> ELSE << >>)
  IN CallByConvention(st, beanName, instance, initMethods, InitMethodTags(T))

callDestroyMethod(st, beanName, instance) ==
  LET T == st.heap[instance].type
      destroyMethods == << "Destroy", "Close", "Cleanup", "PreDestroy" >>
  IN CallByConvention(st, beanName, instance, destroyMethods, DestroyMethodTags(T))

\* ProcessInitialization that runs PostConstruct whatever Init returned
ProcessInitializationNoAbort(st, beanName, instance) ==
  LET T == st.heap[instance].type
      s0 == Call(st, beanName, instance, "LifecycleStarting")
      s1 == IF MethodSig(T, "SetBeanName") = "arg"
            THEN Call(s0, beanName, instance, "SetBeanName") ELSE s0
      isInit == MethodSig(T, "Init") = "err"
      s2 == IF isInit THEN Call(s1, beanName, instance, "Init") ELSE s1
      e2 == isInit /\ Fails(s2, instance, "Init")
      isPost == MethodSig(T, "PostConstruct") = "err"
      s3 == IF isPost THEN Call(s2, beanName, instance, "PostConstruct") ELSE s2
      e3 == e2 \/ (isPost /\ Fails(s3, instance, "PostConstruct"))
      r4 == IF ~e3 THEN callInitMethod(s3, beanName, instance)
            ELSE [st |-> s3, err |-> FALSE]
      initError == e3 \/ r4.err
  IN [st |-> IF initError THEN r4.st
             ELSE [r4.st EXCEPT !.initOrder = Append(@, beanName)],
      err |-> initError]

ProcessInitialization(st, beanName, instance) ==
  LET T == st.heap[instance].type
      s0 == Call(st, beanName, instance, "LifecycleStarting")
      s1 == IF MethodSig(T, "SetBeanName") = "arg"
            THEN Call(s0, beanName, instance, "SetBeanName") ELSE s0
      isInit == MethodSig(T, "Init") = "err"
      s2 == IF isInit THEN Call(s1, beanName, instance, "Init") ELSE s1
      e2 == isInit /\ Fails(s2, instance, "Init")
      isPost == MethodSig(T, "PostConstruct") = "err"
      s3 == IF isPost /\ ~e2 THEN Call(s2, beanName, instance, "PostConstruct") ELSE s2
      e3 == e2 \/ (isPost /\ ~e2 /\ Fails(s3, instance, "PostConstruct"))
      r4 == IF ~e3 THEN callInitMethod(s3, beanName, instance)
            ELSE [st |-> s3, err |-> FALSE]
      initError == e3 \/ r4.err
  IN [st |-> IF initError THEN r4.st
             ELSE [r4.st EXCEPT !.initOrder = Append(@, beanName)],
      err |-> initError]

\* ProcessDestruction that records only the beans destroyed without error
ProcessDestructionRecordsSuccess(st, beanName, instance) ==
  LET T == st.heap[instance].type
      isPre == MethodSig(T, "PreDestroy") = "err"
      s0 == Call(st, beanName, instance, "LifecycleStopping")
      s1 == IF isPre THEN Call(s0, beanName, instance, "PreDestroy") ELSE s0
      e1 == isPre /\ Fails(s1, instance, "PreDestroy")
      isDestroyer == MethodSig(T, "Destroy") = "err"
      s2 == IF isDestroyer /\ ~e1 THEN Call(s1, beanName, instance, "Destroy") ELSE s1
      e2 == e1 \/ (isDestroyer /\ ~e1 /\ Fails(s2, instance, "Destroy"))
      r3 == IF ~e2 THEN callDestroyMethod(s2, beanName, instance)
            ELSE [st |-> s2, err |-> FALSE]
      destroyError == e2 \/ r3.err
  IN [st |-> IF destroyError THEN r3.st
             ELSE [r3.st EXCEPT !.destroyOrder = << beanName >> \o @],
      err |-> destroyError]

ProcessDestruction(st, beanName, instance) ==
  LET T == st.heap[instance].type
      isPre == MethodSig(T, "PreDestroy") = "err"
      s0 == Call(st, beanName, instance, "LifecycleStopping")
      s1 == IF isPre THEN Call(s0, beanName, instance, "PreDestroy") ELSE s0
      e1 == isPre /\ Fails(s1, instance, "PreDestroy")
      isDestroyer == MethodSig(T, "Destroy") = "err"
      s2 == IF isDestroyer /\ ~e1 THEN Call(s1, beanName, instance, "Destroy") ELSE s1
      e2 == e1 \/ (isDestroyer /\ ~e1 /\ Fails(s2, instance, "Destroy"))
      r3 == IF ~e2 THEN callDestroyMethod(s2, beanName, instance)
            ELSE [st |-> s2, err |-> FALSE]
      destroyError == e2 \/ r3.err
  IN [st |-> [r3.st EXCEPT !.destroyOrder = << beanName >> \o @],
      err |-> destroyError]

\* ---------------------------------------------------- ApplicationContext
\* annotations.IsSingleton: the first field, from field i on, with a
\* singleton tag or else a scope tag decides; singleton by default
RECURSIVE IsSingletonFrom(_, _)
IsSingletonFrom(T, i) ==
  IF i > Len(StructTags(T)) THEN TRUE
  ELSE IF StructTags(T)[i].singleton # "" THEN StructTags(T)[i].singleton = "true"
  ELSE IF StructTags(T)[i].scope # "" THEN StructTags(T)[i].scope = "singleton"
  ELSE IsSingletonFrom(T, i + 1)

IsSingleton(T) == IsSingletonFrom(T, 1)

\* scanner.getComponentName: the first component tag, or the type name of a
\* type named by convention, or ""
RECURSIVE getComponentNameFrom(_, _)
getComponentNameFrom(T, i) ==
  IF i > Len(StructTags(T))
  THEN IF HasComponentSuffix(T) THEN LowerName(T) ELSE ""
  ELSE IF StructTags(T)[i].component # ""
       THEN IF StructTags(T)[i].component = "true" THEN LowerName(T)
            ELSE StructTags(T)[i].component
       ELSE getComponentNameFrom(T, i + 1)

getComponentName(T) == getComponentNameFrom(T, 1)

\* scanner.isSingleton: the first singleton tag, from field i on, decides;
\* singleton by default
RECURSIVE isSingletonFrom(_, _)
isSingletonFrom(T, i) ==
  IF i > Len(StructTags(T)) THEN TRUE
  ELSE IF StructTags(T)[i].singleton # "" THEN StructTags(T)[i].singleton = "true"
  ELSE isSingletonFrom(T, i + 1)

isSingleton(T) == isSingletonFrom(T, 1)

\* the initialization loop of Start over beanNames, from index i on
RECURSIVE StartLoop(_, _, _, _)
StartLoop(c, beanNames, i, st) ==
  IF i > Len(beanNames)
  THEN [st |-> st, err |-> "", errBean |-> ""]
  ELSE With(GetBean(c, beanNames[i], st), LAMBDA g :
         IF g.val = Nil
         THEN StartLoop(c, beanNames, i + 1, g.st)
         ELSE With(ProcessInitialization(g.st, beanNames[i], g.val), LAMBDA r :
                IF r.err
                THEN [st |-> r.st, err |-> "init", errBean |-> beanNames[i]]
                ELSE StartLoop(c, beanNames, i + 1, r.st)))

\* what Start does after WireAll left the state w: return its error, or
\* run the initialization loop
StartInit(c, beanNames, w) ==
  IF w.err # ""
  THEN [st |-> w, err |-> "wire", errBean |-> ""]
  ELSE StartLoop(c, beanNames, 1, w)

\* the outcomes of WireAll over the orders its range over the map can take
WireAllOutcomes(c, st) ==
  {WireAll(c, wireOrder, st) : wireOrder \in MapOrders(DOMAIN c.beans)}

\* the outcomes of Start on a context that is not started, over the orders
\* WireAll and ListBeans can take
StartOutcomes(c, st) ==
  UNION {{StartInit(c, beanNames, w) : beanNames \in MapOrders(DOMAIN c.beans)} :
           w \in WireAllOutcomes(c, st)}

\* StopLoop that gives up at the first destruction error
RECURSIVE StopLoopAbort(_, _, _, _)
StopLoopAbort(c, beanNames, i, st) ==
  IF i < 1
  THEN st
  ELSE With(GetBean(c, beanNames[i], st), LAMBDA g :
         IF g.val = Nil
         THEN StopLoopAbort(c, beanNames, i - 1, g.st)
         ELSE With(ProcessDestruction(g.st, beanNames[i], g.val), LAMBDA r :
                IF r.err THEN r.st
                ELSE StopLoopAbort(c, beanNames, i - 1, r.st)))

\* the destruction loop of Stop over beanNames, from index i down to 1
\* (the loops over its orders are StopLoopOutcomes and StopOutcomes below)
RECURSIVE StopLoop(_, _, _, _)
StopLoop(c, beanNames, i, st) ==
  IF i < 1
  THEN st
  ELSE With(GetBean(c, beanNames[i], st), LAMBDA g :
         IF g.val = Nil
         THEN StopLoop(c, beanNames, i - 1, g.st)
         ELSE With(ProcessDestruction(g.st, beanNames[i], g.val), LAMBDA r :
                StopLoop(c, beanNames, i - 1, r.st)))

\* the outcomes of the destruction loop of Stop over the orders ListBeans
\* can take
StopLoopOutcomes(c, st) ==
  {StopLoop(c, beanNames, Len(beanNames), st) : beanNames \in MapOrders(DOMAIN c.beans)}

\* the outcomes of Container.Destroy over the orders its range can take
DestroyOutcomes(c, st) ==
  {DestroyFrom(c, destroyNames, 1, st) : destroyNames \in MapOrders(DOMAIN c.beans)}

\* the outcomes of Stop on a started context: the loop, then Destroy
StopOutcomes(c, st) ==
  UNION {DestroyOutcomes(c, s1) : s1 \in StopLoopOutcomes(c, st)}

Container == [beans |-> beans, typeMapping |-> typeMapping, logger |-> logger]

\* sync.RWMutex: the number of read locks held, and the goroutine that has
\* called Lock() and waits for the readers to leave or holds the lock (0 for
\* none); a pending or holding writer blocks every new RLock()
Unlocked == [readers |-> 0, writer |-> 0]

\* a goroutine that has made no call yet
Idle == [op |-> "", pc |-> "idle", name |-> "", inst |-> Nil, singleton |-> TRUE,
         typ |-> NoType, look |-> "", order |-> << >>, i |-> 0, f |-> 0,
         seen |-> << >>, err |-> "", ret |-> Nil]

\* ------------------------------------------------------------------ Init
Init ==
  /\ beans = << >>
  /\ typeMapping = << >>
  /\ heap = [o \in Pool |-> [type |-> PoolType(o), fields |-> ZeroFields(PoolType(o))]]
  /\ initOrder = << >>
  /\ destroyOrder = << >>
  /\ started = FALSE
  /\ logger = "console"
  /\ mutex = Unlocked
  /\ threads = [t \in Threads |-> Idle]
  /\ regOrder = << >>
  /\ regs = 0
  /\ starts = 0
  /\ last = Result("New", "", Nil, NoType, "", "", Nil)
  /\ log = << >>

\* --------------------------------------------------------------- actions
\* a registration through registerBean, shared by the two scopes
Registered(op, name, instance, singleton) ==
  LET r == registerBean(Container, heap, name, instance, singleton)
      stored == r.err \in {"", "panic"}
  IN /\ stored => regs < MaxRegs
     /\ beans' = r.c.beans
     /\ typeMapping' = r.c.typeMapping
     /\ regOrder' = IF stored
                    THEN Append(regOrder, [name |-> name, inst |-> instance,
                                           singleton |-> singleton, iface |-> "",
                                           late |-> started])
                    ELSE regOrder
     /\ regs' = IF stored THEN regs + 1 ELSE regs
     /\ last' = Result(op, name, instance, NoType, r.err, "", Nil)
     /\ log' = << >>
     /\ heap' = Collect(heap, Nil)
     /\ UNCHANGED <<initOrder, destroyOrder, started, starts, logger, mutex, threads>>

RegisterSingleton ==
  \E in \in SingletonInputs :
    Registered("RegisterSingleton", in[1], in[2], TRUE)

RegisterPrototype ==
  \E in \in PrototypeInputs :
    Registered("RegisterPrototype", in[1], in[2], FALSE)

RegisteredByInterface(I, name, instance) ==
    LET r == RegisterByInterfaceOp(Container, heap, I, instance, name)
        stored == r.err \in {"", "panic"}
    IN /\ stored => regs < MaxRegs
       /\ beans' = r.c.beans
       /\ typeMapping' = r.c.typeMapping
       /\ regOrder' = IF stored
                      THEN Append(regOrder, [name |-> name, inst |-> instance,
                                             singleton |-> TRUE, iface |-> I,
                                             late |-> started])
                      ELSE regOrder
       /\ regs' = IF stored THEN regs + 1 ELSE regs
       /\ last' = Result("RegisterByInterface", name, instance, Iface(I), r.err, "", Nil)
       /\ log' = << >>
       /\ heap' = Collect(heap, Nil)
       /\ UNCHANGED <<initOrder, destroyOrder, started, starts, logger, mutex, threads>>

GetBeanCall ==
  \E name \in Names :
    \E g \in {GetBean(Container, name, St(heap, initOrder, destroyOrder))} :
       /\ g.st.ok
       /\ heap' = Collect(g.st.heap, g.val)
       /\ last' = Result("GetBean", name, Nil, NoType, g.st.err, "", g.val)
       /\ log' = << >>
       /\ UNCHANGED <<beans, typeMapping, initOrder, destroyOrder, started,
                      regOrder, regs, starts, logger, mutex, threads>>

GetBeanByTypeCall ==
  \E typ \in TypeRefs :
    \E g \in {GetBeanByType(Container, typ, St(heap, initOrder, destroyOrder))} :
       /\ g.st.ok
       /\ heap' = Collect(g.st.heap, g.val)
       /\ last' = Result("GetBeanByType", "", Nil, typ, g.st.err, "", g.val)
       /\ log' = << >>
       /\ UNCHANGED <<beans, typeMapping, initOrder, destroyOrder, started,
                      regOrder, regs, starts, logger, mutex, threads>>

\* Start that sets the started flag before the initialization loop
StartMarksStarted ==
  IF started
  THEN /\ last' = Result("Start", "", Nil, NoType, "already_started", "", Nil)
       /\ log' = << >>
       /\ heap' = Collect(heap, Nil)
       /\ UNCHANGED <<beans, typeMapping, initOrder, destroyOrder, started,
                      regOrder, regs, starts, logger, mutex, threads>>
  ELSE /\ starts < MaxStarts
       /\ \E r \in StartOutcomes(Container, St(heap, initOrder, destroyOrder)) :
               /\ r.st.ok
               /\ heap' = Collect(r.st.heap, Nil)
               /\ initOrder' = r.st.initOrder
               /\ started' = TRUE
               /\ last' = Result("Start", "", Nil, NoType, r.err, r.errBean, Nil)
               /\ log' = r.st.log
       /\ starts' = starts + 1
       /\ UNCHANGED <<beans, typeMapping, destroyOrder, regOrder, regs, logger, mutex, threads>>

\* Start without the check of the started flag
StartUnguarded ==
  /\ starts < MaxStarts
  /\ \E r \in StartOutcomes(Container, St(heap, initOrder, destroyOrder)) :
          /\ r.st.ok
          /\ heap' = Collect(r.st.heap, Nil)
          /\ initOrder' = r.st.initOrder
          /\ started' = (r.err = "")
          /\ last' = Result("Start", "", Nil, NoType, r.err, r.errBean, Nil)
          /\ log' = r.st.log
  /\ starts' = starts + 1
  /\ UNCHANGED <<beans, typeMapping, destroyOrder, regOrder, regs, logger, mutex, threads>>

Start ==
  IF started
  THEN /\ last' = Result("Start", "", Nil, NoType, "already_started", "", Nil)
       /\ log' = << >>
       /\ heap' = Collect(heap, Nil)
       /\ UNCHANGED <<beans, typeMapping, initOrder, destroyOrder, started,
                      regOrder, regs, starts, logger, mutex, threads>>
  ELSE /\ starts < MaxStarts
       /\ \E r \in StartOutcomes(Container, St(heap, initOrder, destroyOrder)) :
               /\ r.st.ok
               /\ heap' = Collect(r.st.heap, Nil)
               /\ initOrder' = r.st.initOrder
               /\ started' = (r.err = "")
               /\ last' = Result("Start", "", Nil, NoType, r.err, r.errBean, Nil)
               /\ log' = r.st.log
       /\ starts' = starts + 1
       /\ UNCHANGED <<beans, typeMapping, destroyOrder, regOrder, regs, logger, mutex, threads>>

\* Stop that does not destroy the container
StopKeepsRegistry ==
  IF ~started
  THEN /\ last' = Result("Stop", "", Nil, NoType, "not_started", "", Nil)
       /\ log' = << >>
       /\ heap' = Collect(heap, Nil)
       /\ UNCHANGED <<beans, typeMapping, initOrder, destroyOrder, started,
                      regOrder, regs, starts, logger, mutex, threads>>
  ELSE /\ \E s2 \in StopLoopOutcomes(Container, St(heap, initOrder, destroyOrder)) :
               /\ s2.ok
               /\ heap' = Collect(s2.heap, Nil)
               /\ destroyOrder' = s2.destroyOrder
               /\ log' = s2.log
       /\ started' = FALSE
       /\ last' = Result("Stop", "", Nil, NoType, "", "", Nil)
       /\ UNCHANGED <<beans, typeMapping, regOrder, initOrder, regs, starts, logger, mutex, threads>>

\* Stop that returns the first destruction error to its caller
StopReturnsError ==
  IF ~started
  THEN /\ last' = Result("Stop", "", Nil, NoType, "not_started", "", Nil)
       /\ log' = << >>
       /\ heap' = Collect(heap, Nil)
       /\ UNCHANGED <<beans, typeMapping, initOrder, destroyOrder, started,
                      regOrder, regs, starts, logger, mutex, threads>>
  ELSE /\ \E s2 \in StopOutcomes(Container, St(heap, initOrder, destroyOrder)) :
               /\ s2.ok
               /\ heap' = Collect(s2.heap, Nil)
               /\ destroyOrder' = s2.destroyOrder
               /\ log' = s2.log
               /\ last' = Result("Stop", "", Nil, NoType,
                                 IF \E i \in DOMAIN s2.log : s2.log[i].err
                                 THEN "destroy" ELSE "", "", Nil)
       /\ beans' = << >>
       /\ typeMapping' = << >>
       /\ started' = FALSE
       /\ regOrder' = << >>
       /\ UNCHANGED <<initOrder, regs, starts, logger, mutex, threads>>

Stop ==
  IF ~started
  THEN /\ last' = Result("Stop", "", Nil, NoType, "not_started", "", Nil)
       /\ log' = << >>
       /\ heap' = Collect(heap, Nil)
       /\ UNCHANGED <<beans, typeMapping, initOrder, destroyOrder, started,
                      regOrder, regs, starts, logger, mutex, threads>>
  ELSE /\ \E s2 \in StopOutcomes(Container, St(heap, initOrder, destroyOrder)) :
               /\ s2.ok
               /\ heap' = Collect(s2.heap, Nil)
               /\ destroyOrder' = s2.destroyOrder
               /\ log' = s2.log
       /\ beans' = << >>
       /\ typeMapping' = << >>
       /\ started' = FALSE
       /\ regOrder' = << >>
       /\ last' = Result("Stop", "", Nil, NoType, "", "", Nil)
       /\ UNCHANGED <<initOrder, regs, starts, logger, mutex, threads>>

\* Refresh that calls Start() without stopping a started context
RefreshStartOnly ==
  IF started
  THEN /\ last' = Result("Refresh", "", Nil, NoType, "already_started", "", Nil)
       /\ log' = << >>
       /\ heap' = Collect(heap, Nil)
       /\ UNCHANGED <<beans, typeMapping, initOrder, destroyOrder, started,
                      regOrder, regs, starts, logger, mutex, threads>>
  ELSE /\ starts < MaxStarts
       /\ \E r \in StartOutcomes(Container, St(heap, initOrder, destroyOrder)) :
               /\ r.st.ok
               /\ heap' = Collect(r.st.heap, Nil)
               /\ initOrder' = r.st.initOrder
               /\ started' = (r.err = "")
               /\ last' = Result("Refresh", "", Nil, NoType, r.err, r.errBean, Nil)
               /\ log' = r.st.log
       /\ starts' = starts + 1
       /\ UNCHANGED <<beans, typeMapping, destroyOrder, regOrder, regs, logger, mutex, threads>>

\* the container after Destroy()
Destroyed(c) == [beans |-> << >>, typeMapping |-> << >>, logger |-> c.logger]

\* Refresh: Stop() if the context is started, then Start()
Refresh ==
  /\ starts < MaxStarts
  /\ IF started
     THEN /\ \E s2 \in StopOutcomes(Container, St(heap, initOrder, destroyOrder)) :
               \E r \in StartOutcomes(Destroyed(Container), s2) :
                  /\ r.st.ok
                  /\ heap' = Collect(r.st.heap, Nil)
                  /\ initOrder' = r.st.initOrder
                  /\ destroyOrder' = r.st.destroyOrder
                  /\ started' = (r.err = "")
                  /\ last' = Result("Refresh", "", Nil, NoType, r.err, r.errBean, Nil)
                  /\ log' = r.st.log
          /\ beans' = Destroyed(Container).beans
          /\ typeMapping' = Destroyed(Container).typeMapping
          /\ regOrder' = << >>
     ELSE /\ \E r \in StartOutcomes(Container, St(heap, initOrder, destroyOrder)) :
                  /\ r.st.ok
                  /\ heap' = Collect(r.st.heap, Nil)
                  /\ initOrder' = r.st.initOrder
                  /\ started' = (r.err = "")
                  /\ last' = Result("Refresh", "", Nil, NoType, r.err, r.errBean, Nil)
                  /\ log' = r.st.log
          /\ UNCHANGED <<beans, typeMapping, destroyOrder, regOrder, logger, mutex, threads>>
  /\ starts' = starts + 1
  /\ UNCHANGED <<regs, logger, mutex, threads>>

\* Container.Destroy called directly on the container
Destroy ==
  \E s1 \in DestroyOutcomes(Container, St(heap, initOrder, destroyOrder)) :
    /\ log' = s1.log
    /\ beans' = IF s1.err = "panic" THEN beans ELSE << >>
    /\ typeMapping' = IF s1.err = "panic" THEN typeMapping ELSE << >>
    /\ regOrder' = IF s1.err = "panic" THEN regOrder ELSE << >>
    /\ last' = Result("Destroy", "", Nil, NoType, s1.err, "", Nil)
    /\ heap' = Collect(heap, Nil)
    /\ UNCHANGED <<initOrder, destroyOrder, started, regs, starts, logger, mutex, threads>>

RegisterByInterface ==
  \E in \in InterfaceInputs : RegisteredByInterface(in[1], in[2], in[3])

\* Container.WireAll called directly on the container
WireAllCall ==
    \E s1 \in WireAllOutcomes(Container, St(heap, initOrder, destroyOrder)) :
       /\ s1.ok
       /\ heap' = Collect(s1.heap, Nil)
       /\ last' = Result("WireAll", "", Nil, NoType,
                         IF s1.err = "panic" THEN "panic"
                         ELSE IF s1.err # "" THEN "wire" ELSE "", "", Nil)
       /\ log' = << >>
       /\ UNCHANGED <<beans, typeMapping, initOrder, destroyOrder, started,
                      regOrder, regs, starts, logger, mutex, threads>>

\* ApplicationContext.RegisterBean with a name not yet in use: scope from
\* the struct tags, and immediate initialization on a started context
RegisterBeanOf(in) ==
    LET name == in[1]
        instance == in[2]
        singleton == IsSingleton(heap[instance].type)
        r == registerBean(Container, heap, name, instance, singleton)
        p == IF r.err = "" /\ started
             THEN ProcessInitialization(St(heap, initOrder, destroyOrder), name, instance)
             ELSE [st |-> St(heap, initOrder, destroyOrder), err |-> FALSE]
    IN /\ name \notin DOMAIN beans
       /\ regs < MaxRegs
       /\ beans' = r.c.beans
       /\ typeMapping' = r.c.typeMapping
       /\ regOrder' = Append(regOrder, [name |-> name, inst |-> instance,
                                       singleton |-> singleton, iface |-> "",
                                       late |-> started])
       /\ regs' = regs + 1
       /\ initOrder' = p.st.initOrder
       /\ log' = p.st.log
       /\ heap' = Collect(heap, Nil)
       /\ last' = Result("RegisterBean", name, instance, NoType,
                         IF p.err THEN "init" ELSE r.err,
                         IF p.err THEN name ELSE "", Nil)
       /\ UNCHANGED <<destroyOrder, started, starts, logger, mutex, threads>>

RegisterBean == \E in \in SingletonInputs : RegisterBeanOf(in)

\* RegisterBean of the components carrying scope tags
RegisterTaggedBean == \E in \in BeanInputs : RegisterBeanOf(in)

\* ApplicationContext.RegisterComponent: scanner.ScanComponent, component
\* name not yet in use
RegisterComponent ==
  \E instance \in ComponentInputs :
    LET typ == heap[instance].type
        componentName == getComponentName(typ)
    IN IF componentName = ""
       THEN /\ last' = Result("RegisterComponent", "", instance, NoType,
                              "not_component", "", Nil)
            /\ log' = << >>
            /\ heap' = Collect(heap, Nil)
            /\ UNCHANGED <<beans, typeMapping, initOrder, destroyOrder, started,
                           regOrder, regs, starts, logger, mutex, threads>>
       ELSE /\ componentName \notin DOMAIN beans
            /\ Registered("RegisterComponent", componentName, instance, isSingleton(typ))

\* Container.RegisterPrototype through GetContainer(), name not yet in use
ContainerRegisterPrototype ==
  \E in \in PrototypeInputs :
    /\ in[1] \notin DOMAIN beans
    /\ Registered("RegisterPrototype", in[1], in[2], FALSE)

\* ApplicationContext.RegisterByInterface, name not yet in use
ContextRegisterByInterface ==
  \E in \in ContextInterfaceInputs :
    /\ in[2] \notin DOMAIN beans
    /\ RegisteredByInterface(in[1], in[2], in[3])

\* the application context and the container behind it
Next ==
  \/ RegisterBean
  \/ ContainerRegisterPrototype
  \/ ContextRegisterByInterface
  \/ Start
  \/ Stop

Spec == Init /\ [][Next]_vars

\* a context the application also refreshes
NextRefresh ==
  \/ RegisterBean
  \/ Start
  \/ Stop
  \/ Refresh

SpecRefresh == Init /\ [][NextRefresh]_vars

\* a context on which components are registered by their struct tags
NextScan ==
  \/ RegisterTaggedBean
  \/ RegisterComponent
  \/ GetBeanCall
  \/ Stop
  \/ Start

SpecScan == Init /\ [][NextScan]_vars

\* Container.SetLogger
SetLogger ==
  \E l \in Loggers :
    /\ logger' = l
    /\ last' = Result("SetLogger", "", Nil, NoType, "", "", Nil)
    /\ log' = << >>
    /\ heap' = Collect(heap, Nil)
    /\ UNCHANGED <<beans, typeMapping, initOrder, destroyOrder, started,
                   mutex, threads, regOrder, regs, starts>>

\* a container used on its own
NextContainer ==
  \/ RegisterSingleton
  \/ RegisterPrototype
  \/ RegisterByInterface
  \/ GetBeanCall
  \/ GetBeanByTypeCall
  \/ WireAllCall
  \/ Destroy

SpecContainer == Init /\ [][NextContainer]_vars

\* a container whose sink the application replaces
NextSink ==
  \/ SetLogger
  \/ RegisterSingleton
  \/ RegisterPrototype
  \/ RegisterByInterface
  \/ GetBeanCall
  \/ WireAllCall
  \/ Destroy

SpecSink == Init /\ [][NextSink]_vars

\* ----------------------------------------- concurrent use of one container
\* Each goroutine makes one call.  A call is a sequence of steps: taking
\* the lock, waiting for it, and the code between two lock operations.

\* registerBean past the check for an existing name: the bean definition
\* and the two type mappings
storeBean(c, h, name, instance, singleton) ==
  LET typ == Elem(h[instance].type)
      originalType == TypeOf(h, instance)
      beanDef == [Type |-> h[instance].type, Singleton |-> singleton,
                  Instance |-> instance]
  IN [beans |-> [n \in DOMAIN c.beans \cup {name} |->
                   IF n = name THEN beanDef ELSE c.beans[n]],
      typeMapping |-> [t \in DOMAIN c.typeMapping \cup {typ, originalType} |->
                         IF t \in {typ, originalType} THEN name
                         ELSE c.typeMapping[t]]]

\* the registrations made one after the other before the goroutines start
ConcInitialRegistrations == {<< >>, << <<"b", 4>>, <<"c", 3>> >>}

\* the container after RegisterSingleton of the first i entries
RECURSIVE RegisterAll(_, _, _)
RegisterAll(h, ins, i) ==
  IF i = 0
  THEN [beans |-> << >>, typeMapping |-> << >>, logger |-> "console"]
  ELSE LET r == registerBean(RegisterAll(h, ins, i - 1), h, ins[i][1], ins[i][2], TRUE)
       IN [beans |-> r.c.beans, typeMapping |-> r.c.typeMapping, logger |-> "console"]

InitConc ==
  /\ heap = [o \in Pool |-> [type |-> PoolType(o), fields |-> ZeroFields(PoolType(o))]]
  /\ \E ins \in ConcInitialRegistrations :
       /\ beans = RegisterAll(heap, ins, Len(ins)).beans
       /\ typeMapping = RegisterAll(heap, ins, Len(ins)).typeMapping
       /\ regOrder = [i \in DOMAIN ins |-> [name |-> ins[i][1], inst |-> ins[i][2],
                                            singleton |-> TRUE, iface |-> "",
                                            late |-> FALSE]]
       /\ regs = Len(ins)
  /\ initOrder = << >>
  /\ destroyOrder = << >>
  /\ started = FALSE
  /\ logger = "console"
  /\ mutex = Unlocked
  /\ threads = [t \in Threads |-> Idle]
  /\ starts = 0
  /\ last = Result("New", "", Nil, NoType, "", "", Nil)
  /\ log = << >>

\* what no step of a goroutine changes
ConcUnchanged == <<initOrder, destroyOrder, started, logger, starts, last>>

\* garbage collection: the application keeps the pool instances and the
\* values the calls returned
ConcCollect(h, th) ==
  LET live == Reach(h, (Pool \cup {th[u].ret : u \in Threads}) \ {Nil})
  IN [o \in live |-> h[o]]

\* a goroutine calls into the container
Invoke(t) ==
  /\ threads[t].pc = "idle"
  /\ \/ \E in \in ConcRegisterInputs, singleton \in BOOLEAN :
          threads' = [threads EXCEPT ![t] =
                        [Idle EXCEPT !.op = IF singleton THEN "RegisterSingleton"
                                            ELSE "RegisterPrototype",
                                     !.pc = "lock", !.name = in[1], !.inst = in[2],
                                     !.singleton = singleton]]
     \/ \E name \in ConcNames :
          threads' = [threads EXCEPT ![t] =
                        [Idle EXCEPT !.op = "GetBean", !.pc = "rlock",
                                     !.look = "name", !.name = name]]
     \/ \E typ \in ConcTypes :
          threads' = [threads EXCEPT ![t] =
                        [Idle EXCEPT !.op = "GetBeanByType", !.pc = "rlock",
                                     !.look = "type", !.typ = typ]]
     \/ threads' = [threads EXCEPT ![t] =
                      [Idle EXCEPT !.op = "WireAll", !.pc = "rlock", !.look = "all"]]
     \/ threads' = [threads EXCEPT ![t] = [Idle EXCEPT !.op = "Destroy", !.pc = "lock"]]
  /\ UNCHANGED <<beans, typeMapping, heap, mutex, regOrder, regs, log, ConcUnchanged>>

\* mutex.Lock() that excludes nobody
LockUnguarded(t) ==
  /\ threads[t].pc = "lock"
  /\ threads' = [threads EXCEPT ![t].pc = "wait"]
  /\ UNCHANGED <<beans, typeMapping, heap, mutex, regOrder, regs, log, ConcUnchanged>>

\* mutex.Lock(), first half: once no other writer is pending or holding,
\* the goroutine announces itself, which blocks new readers
Lock(t) ==
  /\ threads[t].pc = "lock"
  /\ mutex.writer = 0
  /\ mutex' = [mutex EXCEPT !.writer = t]
  /\ threads' = [threads EXCEPT ![t].pc = "wait"]
  /\ UNCHANGED <<beans, typeMapping, heap, regOrder, regs, log, ConcUnchanged>>

\* registerBean: Lock() returns once the readers have left; the check for
\* an existing name, and the deferred Unlock() when it fails
registerBeanCheck(t) ==
  /\ threads[t].pc = "wait"
  /\ threads[t].op \in {"RegisterSingleton", "RegisterPrototype", "RegisterByInterface"}
  /\ threads[t].look # "bind"
  /\ mutex.readers = 0
  /\ IF threads[t].name \in DOMAIN beans
     THEN /\ threads' = [threads EXCEPT ![t].pc = "done", ![t].err = "duplicate"]
          /\ mutex' = [mutex EXCEPT !.writer = 0]
     ELSE /\ threads' = [threads EXCEPT ![t].pc = "store"]
          /\ UNCHANGED mutex
  /\ UNCHANGED <<beans, typeMapping, heap, regOrder, regs, log, ConcUnchanged>>

\* registerBean: the bean and its type mappings are stored, and the
\* deferred Unlock()
registerBeanStore(t) ==
  /\ threads[t].pc = "store"
  /\ LET r == storeBean(Container, heap, threads[t].name, threads[t].inst,
                        threads[t].singleton)
     IN /\ beans' = r.beans
        /\ typeMapping' = r.typeMapping
  /\ regOrder' = Append(regOrder, [name |-> threads[t].name, inst |-> threads[t].inst,
                                   singleton |-> threads[t].singleton, iface |-> "",
                                   late |-> FALSE])
  /\ regs' = regs + 1
  /\ mutex' = [mutex EXCEPT !.writer = 0]
  /\ threads' = IF threads[t].op = "RegisterByInterface"
                THEN [threads EXCEPT ![t].pc = "lock", ![t].look = "bind"]
                ELSE [threads EXCEPT ![t].pc = "done"]
  /\ UNCHANGED <<heap, log, ConcUnchanged>>

\* Destroy: Lock() returns once the readers have left; the destroy loop,
\* the maps are replaced, and the deferred Unlock()
DestroyLocked(t) ==
  /\ threads[t].pc = "wait"
  /\ threads[t].op = "Destroy"
  /\ mutex.readers = 0
  /\ \E s1 \in DestroyOutcomes(Container, St(heap, initOrder, destroyOrder)) :
       /\ log' = s1.log
       /\ beans' = IF s1.err = "panic" THEN beans ELSE << >>
       /\ typeMapping' = IF s1.err = "panic" THEN typeMapping ELSE << >>
       /\ regOrder' = IF s1.err = "panic" THEN regOrder ELSE << >>
       /\ threads' = [threads EXCEPT ![t].pc = "done", ![t].err = s1.err]
  /\ mutex' = [mutex EXCEPT !.writer = 0]
  /\ UNCHANGED <<heap, regs, ConcUnchanged>>

\* mutex.RLock(): granted unless a writer is pending or holding.  WireAll
\* starts its range over the bean map once it has the lock.
RLock(t) ==
  /\ threads[t].pc = "rlock"
  /\ mutex.writer = 0
  /\ mutex' = [mutex EXCEPT !.readers = @ + 1]
  /\ IF threads[t].look = "all"
     THEN \E order \in MapOrders(DOMAIN beans) :
            threads' = [threads EXCEPT ![t].pc = "wire", ![t].order = order,
                                       ![t].i = 1, ![t].f = 1]
     ELSE threads' = [threads EXCEPT ![t].pc = "read"]
  /\ UNCHANGED <<beans, typeMapping, heap, regOrder, regs, log, ConcUnchanged>>

\* GetBean or GetBeanByType returns val: to the application, or to
\* InjectDependencies inside WireAll, which sets the field when the value
\* is assignable and moves to the next field
Returns(t, val, h) ==
  IF threads[t].op = "WireAll"
  THEN LET instance == beans[threads[t].order[threads[t].i]].Instance
           field == Fields(h[instance].type)[threads[t].f]
           th == [threads EXCEPT ![t].pc = "wire", ![t].f = @ + 1]
       IN /\ threads' = th
          /\ heap' = ConcCollect(IF val # Nil /\ AssignableTo(h[val].type, field.ftype)
                                 THEN [h EXCEPT ![instance].fields[threads[t].f] = val]
                                 ELSE h, th)
  ELSE LET th == [threads EXCEPT ![t].pc = "done", ![t].ret = val]
       IN /\ threads' = th
          /\ heap' = ConcCollect(h, th)

\* GetBean: the bean definition is read, RUnlock(), and the instance is
\* returned or created
GetBeanRead(t) ==
  /\ threads[t].pc = "read"
  /\ threads[t].look = "name"
  /\ mutex' = [mutex EXCEPT !.readers = @ - 1]
  /\ \E g \in {GetBean(Container, threads[t].name, St(heap, initOrder, destroyOrder))} :
       /\ g.st.ok
       /\ Returns(t, g.val, g.st.heap)
  /\ UNCHANGED <<beans, typeMapping, regOrder, regs, log, ConcUnchanged>>

\* GetBeanByType: the type mapping is read, RUnlock(), and GetBean is
\* called with the name found
GetBeanByTypeRead(t) ==
  /\ threads[t].pc = "read"
  /\ threads[t].look = "type"
  /\ mutex' = [mutex EXCEPT !.readers = @ - 1]
  /\ IF threads[t].typ \notin DOMAIN typeMapping
     THEN Returns(t, Nil, heap)
     ELSE /\ threads' = [threads EXCEPT ![t].pc = "rlock", ![t].look = "name",
                                        ![t].name = typeMapping[threads[t].typ]]
          /\ UNCHANGED heap
  /\ UNCHANGED <<beans, typeMapping, regOrder, regs, log, ConcUnchanged>>

\* the next field InjectDependencies looks a dependency up for, from field
\* f of bean i of the order on: a tagged, settable field
RECURSIVE NextField(_, _, _, _)
NextField(c, order, i, f) ==
  IF i > Len(order) THEN [i |-> i, f |-> 1]
  ELSE LET fs == Fields(c.beans[order[i]].Type)
       IN IF f > Len(fs) THEN NextField(c, order, i + 1, 1)
          ELSE IF fs[f].tag = "" \/ ~fs[f].settable THEN NextField(c, order, i, f + 1)
          ELSE [i |-> i, f |-> f]

\* WireAll, holding its read lock: InjectDependencies of the next bean calls
\* GetBean or GetBeanByType for the next tagged field; after the last bean
\* the deferred RUnlock()
WireAllStep(t) ==
  /\ threads[t].pc = "wire"
  /\ LET pos == NextField(Container, threads[t].order, threads[t].i, threads[t].f)
     IN IF pos.i > Len(threads[t].order)
        THEN /\ mutex' = [mutex EXCEPT !.readers = @ - 1]
             /\ threads' = [threads EXCEPT ![t].pc = "done"]
        ELSE LET field == Fields(beans[threads[t].order[pos.i]].Type)[pos.f]
             IN /\ threads' = [threads EXCEPT
                                 ![t].pc = "rlock", ![t].i = pos.i, ![t].f = pos.f,
                                 ![t].look = IF field.tag # "true" THEN "name" ELSE "type",
                                 ![t].name = IF field.tag # "true" THEN field.tag ELSE "",
                                 ![t].typ = IF field.tag # "true" THEN NoType
                                            ELSE field.ftype]
                /\ UNCHANGED mutex
  /\ UNCHANGED <<beans, typeMapping, heap, regOrder, regs, log, ConcUnchanged>>

\* a step of goroutine t
ThreadStep(t) ==
  \/ Invoke(t)
  \/ Lock(t)
  \/ registerBeanCheck(t)
  \/ registerBeanStore(t)
  \/ DestroyLocked(t)
  \/ RLock(t)
  \/ GetBeanRead(t)
  \/ GetBeanByTypeRead(t)
  \/ WireAllStep(t)

NextConc == \E t \in Threads : ThreadStep(t)

\* a goroutine calls RegisterByInterface: the Implements check, then
\* RegisterSingleton
InvokeRegisterByInterface(t) ==
  /\ threads[t].pc = "idle"
  /\ \E in \in ConcInterfaceInputs :
       threads' = [threads EXCEPT ![t] =
                     IF ~Implements(heap[in[3]].type, in[1])
                     THEN [Idle EXCEPT !.op = "RegisterByInterface", !.pc = "done",
                                       !.name = in[2], !.inst = in[3],
                                       !.typ = Iface(in[1]), !.err = "not_implemented"]
                     ELSE [Idle EXCEPT !.op = "RegisterByInterface", !.pc = "lock",
                                       !.name = in[2], !.inst = in[3],
                                       !.typ = Iface(in[1])]]
  /\ UNCHANGED <<beans, typeMapping, heap, mutex, regOrder, regs, log, ConcUnchanged>>

\* RegisterByInterface after RegisterSingleton returned nil: the second
\* Lock() returns, the interface is mapped to the name, Unlock()
bindInterface(t) ==
  /\ threads[t].pc = "wait"
  /\ threads[t].op = "RegisterByInterface"
  /\ threads[t].look = "bind"
  /\ mutex.readers = 0
  /\ typeMapping' = [ty \in DOMAIN typeMapping \cup {threads[t].typ} |->
                       IF ty = threads[t].typ THEN threads[t].name
                       ELSE typeMapping[ty]]
  /\ mutex' = [mutex EXCEPT !.writer = 0]
  /\ threads' = [threads EXCEPT ![t].pc = "done"]
  /\ UNCHANGED <<beans, heap, regOrder, regs, log, ConcUnchanged>>

\* goroutines that register by interface, look up and destroy
BindStep(t) ==
  \/ InvokeRegisterByInterface(t)
  \/ bindInterface(t)
  \/ ThreadStep(t)

NextBind == \E t \in Threads : BindStep(t)

SpecBind == InitConc /\ [][NextBind]_vars /\ \A t \in Threads : WF_vars(BindStep(t))

\* the scheduler runs every goroutine that can take a step
SpecConc == InitConc /\ [][NextConc]_vars /\ \A t \in Threads : WF_vars(ThreadStep(t))

\* the goroutines whose registration of name n has returned, and those of
\* them that returned no error
RegisterCalls(n) ==
  {t \in Threads : /\ threads[t].op \in {"RegisterSingleton", "RegisterPrototype"}
                   /\ threads[t].pc = "done"
                   /\ threads[t].name = n}

RegisterSucceeded(n) == {t \in RegisterCalls(n) : threads[t].err = ""}

\* C22: when several goroutines register the same name, free when they
\* start, and nothing is destroyed meanwhile, exactly one of the calls that
\* returned has succeeded, every other one returned the duplicate-name
\* error, and the bean stored under the name and the types mapped to it
\* are those of the call that succeeded.
C22_RegistrationIsAtomic ==
  (\A t \in Threads : threads[t].op # "Destroy") =>
    \A n \in {in[1] : in \in ConcRegisterInputs} :
      RegisterCalls(n) # {} =>
        /\ Cardinality(RegisterSucceeded(n)) = 1
        /\ \A t \in RegisterCalls(n) \ RegisterSucceeded(n) :
             threads[t].err = "duplicate"
        /\ \A t \in RegisterSucceeded(n) :
             /\ n \in DOMAIN beans
             /\ beans[n].Instance = threads[t].inst
             /\ beans[n].Singleton = threads[t].singleton
             /\ {ty \in DOMAIN typeMapping : typeMapping[ty] = n}
                  = {Elem(heap[threads[t].inst].type), TypeOf(heap, threads[t].inst)}

C22_Witness ==
  /\ \A t \in Threads : threads[t].op # "Destroy"
  /\ Cardinality(RegisterCalls("a")) = MaxThreads
  /\ \E t, u \in RegisterCalls("a") : threads[t].inst # threads[u].inst
  /\ \E t \in RegisterSucceeded("a") : ~threads[t].singleton

\* C21: under every fair interleaving of concurrent calls into one
\* container, every call that was made eventually returns; no goroutine
\* stays blocked on the container's read-write lock, also not WireAll with
\* its nested read-locked lookups while a writer waits.
C21_EveryCallReturns ==
  \A t \in Threads : (threads[t].pc # "idle") ~> (threads[t].pc = "done")

TypeOK ==
  /\ DOMAIN beans \subseteq Names
  /\ DOMAIN typeMapping \subseteq TypeRefs
  /\ started \in BOOLEAN

\* ------------------------------------------------------------ properties
RegNames == [i \in DOMAIN regOrder |-> regOrder[i].name]
RegNamesSet == {regOrder[i].name : i \in DOMAIN regOrder}
Reverse(s) == [i \in DOMAIN s |-> s[Len(s) + 1 - i]]
Range(s) == {s[i] : i \in DOMAIN s}
\* the beans were all registered before Start()
RegisteredBeforeStart == \A i \in DOMAIN regOrder : ~regOrder[i].late
\* hook methods that initialize / destroy a bean
InitHooks == {"Init", "PostConstruct", "Initialize", "AfterPropertiesSet", "CustomInit"}
\* number of calls of method m on object o by the last call
Calls(o, m) == Cardinality({i \in DOMAIN log : log[i].obj = o /\ log[i].m = m})

\* C1: after the first Start() of a context succeeds, initOrder is the
\* sequence of bean names in registration order.
C1_InitOrderIsRegistrationOrder ==
  (last.op = "Start" /\ last.err = "" /\ starts = 1) => initOrder = RegNames

\* C2: when Stop() follows the first Start() of beans registered before it,
\* destroyOrder becomes the reverse of the registration order.
C2_DestroyOrderIsReverseRegistration ==
  [][(started /\ ~started' /\ starts = 1 /\ RegisteredBeforeStart)
       => destroyOrder' = Reverse(RegNames)]_vars

\* C3: with a, b, c registered in that order and only b's Init failing,
\* Start() returns an error naming b, no init hook of c runs, and initOrder
\* holds a but neither b nor c.
C3_PartialFailureContainment ==
  (/\ last.op = "Start" /\ starts = 1
   /\ RegNames = << "a", "b", "c" >>
   /\ regOrder[2].inst = 2 /\ regOrder[2].singleton)
  => /\ last.err = "init" /\ last.errBean = "b"
     /\ \A i \in DOMAIN log : log[i].bean = "c" => log[i].m \notin InitHooks
     /\ "a" \in Range(initOrder)
     /\ "b" \notin Range(initOrder)
     /\ "c" \notin Range(initOrder)

\* C4: a Stop() runs ProcessDestruction for every registered bean and
\* leaves every registered name in destroyOrder, also when a destroy hook
\* returned an error.
C4_DestroyBestEffort ==
  [][(started /\ ~started')
       => \A n \in DOMAIN beans :
            /\ n \in Range(destroyOrder')
            /\ \E i \in DOMAIN log' : log'[i].bean = n /\ log'[i].m = "LifecycleStopping"]_vars

C4_Witness ==
  /\ last.op = "Stop" /\ last.err = ""
  /\ \E i \in DOMAIN log : log[i].m = "Destroy" /\ log[i].err
  /\ Cardinality({log[i].bean : i \in DOMAIN log}) >= 2
  /\ Len(destroyOrder) >= 2

\* C5: a single Stop() invokes the Destroy method of a bean instance at
\* most once.
C5_DestroyAtMostOnce ==
  last.op = "Stop" => \A i \in DOMAIN log : Calls(log[i].obj, "Destroy") <= 1

\* the registration calls of a container
RegisterOps == {"RegisterSingleton", "RegisterPrototype"}
\* the record of the registration that put name n into the registry
RegistrationOf(n) == regOrder[CHOOSE i \in DOMAIN regOrder : regOrder[i].name = n]
\* the registration maps the type: its concrete type T and *T, or the
\* interface it was bound to
MapsType(rec, typ) ==
  \/ typ \in {Elem(PoolType(rec.inst)), Ptr(PoolType(rec.inst))}
  \/ rec.iface # "" /\ typ = Iface(rec.iface)
\* the instance a field should receive from the registry c: the singleton
\* its tag names, or the singleton mapped to its type, when assignable
Wanted(c, f) ==
  LET byType == f.tag \in {"", "true"}
      name == IF ~byType THEN f.tag
              ELSE IF f.ftype \in DOMAIN c.typeMapping THEN c.typeMapping[f.ftype]
              ELSE ""
  IN IF /\ f.settable
        /\ name \in DOMAIN c.beans
        /\ c.beans[name].Singleton
        /\ AssignableTo(c.beans[name].Type, f.ftype)
     THEN c.beans[name].Instance
     ELSE Nil

\* C6: a RegisterSingleton or RegisterPrototype under a name that is
\* registered returns the duplicate-name error and changes neither the bean
\* map nor the type mapping; the name still resolves to the bean registered
\* first.
C6_DuplicateNameRejected ==
  [][(last'.op \in RegisterOps /\ last'.name \in DOMAIN beans)
       => /\ last'.err = "duplicate"
          /\ beans' = beans
          /\ typeMapping' = typeMapping
          /\ beans'[last'.name].Instance = RegistrationOf(last'.name).inst
          /\ beans'[last'.name].Singleton = RegistrationOf(last'.name).singleton]_vars

C6_Witness ==
  /\ last.op \in RegisterOps /\ last.err = "duplicate"
  /\ beans[last.name].Instance # last.inst
  /\ Elem(PoolType(last.inst)) \notin DOMAIN typeMapping
  /\ Ptr(PoolType(last.inst)) \notin DOMAIN typeMapping

\* C7: GetBean of a name registered as a singleton returns the instance
\* that was registered under it, whatever was registered or looked up in
\* between, as long as the container was not destroyed.
C7_SingletonIdentity ==
  (last.op = "GetBean" /\ last.name \in RegNamesSet)
    => (RegistrationOf(last.name).singleton
          => last.ret = RegistrationOf(last.name).inst)

C7_Witness ==
  /\ last.op = "GetBean" /\ last.ret # Nil
  /\ Len(regOrder) >= 2
  /\ regOrder[1].name = last.name /\ regOrder[1].singleton
  /\ last.ret = regOrder[1].inst
  /\ \E i \in DOMAIN heap[4].fields : heap[4].fields[i] # Nil

\* C8: GetBean of a prototype name returns an instance that is neither the
\* registered template nor an instance returned before, of the registered
\* type, and every inject-tagged field of it (by name, `inject:"true"` or
\* `inject:""`) holds the singleton the registry resolves it to.
C8_PrototypeDistinctAndWired ==
  [][(last'.op = "GetBean" /\ last'.name \in DOMAIN beans
        /\ ~beans[last'.name].Singleton)
       => /\ last'.ret # Nil
          /\ last'.ret # beans[last'.name].Instance
          /\ last'.ret \notin DOMAIN heap
          /\ heap'[last'.ret].type = beans[last'.name].Type
          /\ \A i \in DOMAIN Fields(beans[last'.name].Type) :
               LET f == Fields(beans[last'.name].Type)[i]
               IN Wanted(Container, f) # Nil
                    => heap'[last'.ret].fields[i] = Wanted(Container, f)]_vars

\* C9: GetBeanByType of a type returns the instance of the latest
\* registration that maps the type (T and *T for a registered *T, I for a
\* RegisterByInterface of I) when that registration is a singleton.
C9_TypeResolutionRoundTrip ==
  last.op = "GetBeanByType"
    => \A i \in DOMAIN regOrder :
         (/\ MapsType(regOrder[i], last.typ)
          /\ regOrder[i].singleton
          /\ \A j \in DOMAIN regOrder : j > i => ~MapsType(regOrder[j], last.typ))
         => last.ret = regOrder[i].inst

C9_Witness ==
  /\ last.op = "GetBeanByType" /\ last.typ = Iface("IRepo") /\ last.ret # Nil
  /\ \E i \in DOMAIN regOrder :
       /\ regOrder[i].iface = "IRepo" /\ last.ret = regOrder[i].inst
       /\ i < Len(regOrder)
  /\ Elem("Repo") \in DOMAIN typeMapping
  /\ typeMapping[Elem("Repo")] # typeMapping[Iface("IRepo")]

\* C10: RegisterByInterface(I, x, n) fails and changes nothing when x does
\* not implement I; fails with the duplicate-name error, binding nothing,
\* when n is registered; and otherwise registers n as the singleton x and
\* binds I to n.
C10_RegisterByInterfaceCases ==
  [][last'.op = "RegisterByInterface"
       => IF ~Implements(PoolType(last'.inst), last'.typ[2])
          THEN /\ last'.err = "not_implemented"
               /\ beans' = beans /\ typeMapping' = typeMapping
          ELSE IF last'.name \in DOMAIN beans
          THEN /\ last'.err = "duplicate"
               /\ beans' = beans /\ typeMapping' = typeMapping
          ELSE /\ last'.err = ""
               /\ DOMAIN beans' = DOMAIN beans \cup {last'.name}
               /\ beans'[last'.name].Singleton
               /\ beans'[last'.name].Instance = last'.inst
               /\ typeMapping'[last'.typ] = last'.name
               /\ \A n \in DOMAIN beans : beans'[n] = beans[n]]_vars

C10_Witness ==
  /\ last.op = "RegisterByInterface" /\ last.err = "duplicate"
  /\ Implements(PoolType(last.inst), last.typ[2])
  /\ last.typ \in DOMAIN typeMapping
  /\ typeMapping[last.typ] # last.name

\* C11: Start() on a started context returns the already-started error and
\* Stop() on a context that is not started returns the not-started error;
\* neither runs injection or a hook, and the registry, the started flag and
\* the order logs stay as they were.
C11_StartStopGuards ==
  [][/\ (last'.op = "Start" /\ started)
          => /\ last'.err = "already_started"
             /\ log' = << >>
             /\ UNCHANGED <<beans, typeMapping, heap, initOrder, destroyOrder, started>>
     /\ (last'.op = "Stop" /\ ~started)
          => /\ last'.err = "not_started"
             /\ log' = << >>
             /\ UNCHANGED <<beans, typeMapping, heap, initOrder, destroyOrder, started>>]_vars

C11_Witness ==
  /\ last.op = "Start" /\ last.err = "already_started"
  /\ started
  /\ {"a", "b"} \subseteq DOMAIN beans
  /\ beans["b"].Instance = 4
  /\ heap[4].fields[1] = Nil
  /\ "b" \in Range(initOrder)

\* C12 as stated: whenever Start() returned an error the context is not
\* started.
C12_ErrorMeansNotStarted ==
  (last.op = "Start" /\ last.err # "") => ~started

\* C12: a Start() on a context that is not started and that returns an
\* error leaves the context not started, whichever bean failed.
C12_FailedStartNotStarted ==
  [][(last'.op = "Start" /\ ~started /\ last'.err # "") => ~started']_vars

C12_Witness ==
  /\ last.op = "Start" /\ last.err = "init"
  /\ ~started
  /\ initOrder # << >>
  /\ last.errBean \notin Range(initOrder)

\* C13: when a hook that initializes a bean runs inside Start(), every
\* inject-tagged field of every registered singleton already holds the
\* singleton the registry resolves it to (by name or by type).
C13_WiredBeforeInit ==
  (last.op = "Start" /\ last.err # "already_started")
    => \A i \in DOMAIN log :
         log[i].m \in InitHooks
           => \A n \in DOMAIN beans :
                beans[n].Singleton
                  => \A k \in DOMAIN Fields(beans[n].Type) :
                       LET f == Fields(beans[n].Type)[k]
                       IN Wanted(Container, f) # Nil
                            => log[i].wiring[beans[n].Instance][k]
                                 = Wanted(Container, f)

\* a field injected by bean name
ByName(f) == f.tag \notin {"", "true"}
\* the singleton a by-name field names, when it exists and is assignable
Named(c, f) ==
  IF /\ ByName(f)
     /\ f.tag \in DOMAIN c.beans
     /\ c.beans[f.tag].Singleton
     /\ AssignableTo(c.beans[f.tag].Type, f.ftype)
  THEN c.beans[f.tag].Instance
  ELSE Nil

\* C14 as stated: after a successful Start() every by-name inject field of
\* a registered singleton whose named singleton exists and is assignable
\* holds that singleton's instance.
C14_ByNameFieldsWired ==
  (last.op = "Start" /\ last.err = "")
    => \A n \in DOMAIN beans :
         beans[n].Singleton
           => \A k \in DOMAIN Fields(beans[n].Type) :
                LET f == Fields(beans[n].Type)[k]
                IN Named(Container, f) # Nil
                     => heap[beans[n].Instance].fields[k] = Named(Container, f)

\* C14: after a successful Start() every settable (exported) by-name inject
\* field of a registered singleton whose named singleton exists and is
\* assignable holds that singleton's instance.
C14_SettableByNameFieldsWired ==
  (last.op = "Start" /\ last.err = "")
    => \A n \in DOMAIN beans :
         beans[n].Singleton
           => \A k \in DOMAIN Fields(beans[n].Type) :
                LET f == Fields(beans[n].Type)[k]
                IN (Named(Container, f) # Nil /\ f.settable)
                     => heap[beans[n].Instance].fields[k] = Named(Container, f)

C14_Witness ==
  /\ last.op = "Start" /\ last.err = ""
  /\ {"a", "b"} \subseteq DOMAIN beans
  /\ beans["a"].Singleton /\ beans["a"].Type = "Repo"
  /\ beans["b"].Instance = 4
  /\ heap[4].fields[1] = beans["a"].Instance

\* the registry c resolves the field to no bean: its name is not
\* registered, or no bean is mapped to its type
Unresolved(c, f) ==
  IF ByName(f) THEN f.tag \notin DOMAIN c.beans
  ELSE f.ftype \notin DOMAIN c.typeMapping

\* C15: a Start() on a context that is not started never returns an
\* injection error; in every registered singleton a field it processes
\* whose bean cannot be resolved is left as it was, and the other fields it
\* processes still receive the singleton they resolve to.
C15_UnresolvedIsNotFatal ==
  [][(last'.op = "Start" /\ ~started)
       => /\ last'.err \in {"", "init"}
          /\ \A n \in DOMAIN beans :
               beans[n].Singleton
                 => \A k \in DOMAIN Fields(beans[n].Type) :
                      LET f == Fields(beans[n].Type)[k]
                          o == beans[n].Instance
                      IN (f.tag # "" /\ f.settable)
                           => /\ Unresolved(Container, f)
                                   => heap'[o].fields[k] = heap[o].fields[k]
                              /\ Wanted(Container, f) # Nil
                                   => heap'[o].fields[k] = Wanted(Container, f)]_vars

C15_Witness ==
  /\ last.op = "Start" /\ last.err = ""
  /\ "b" \in DOMAIN beans /\ beans["b"].Instance = 4
  /\ "a" \notin DOMAIN beans
  /\ heap[4].fields[1] = Nil
  /\ heap[4].fields[2] # Nil

\* C16: after WireAll() a settable field tagged `inject:""` of a registered
\* singleton holds the singleton mapped to the field's type, whenever one
\* is mapped and assignable.
C16_EmptyTagInjectedByType ==
  last.op = "WireAll"
    => \A n \in DOMAIN beans :
         beans[n].Singleton
           => \A k \in DOMAIN Fields(beans[n].Type) :
                LET f == Fields(beans[n].Type)[k]
                IN (f.tag = "" /\ Wanted(Container, f) # Nil)
                     => heap[beans[n].Instance].fields[k] = Wanted(Container, f)

SameTypeRegistered(c, T) == \E m \in DOMAIN c.beans : c.beans[m].Type = T

\* C18: a registration under a new name of an instance whose concrete type
\* (or whose interface, for RegisterByInterface) is already mapped to
\* another bean succeeds, leaves every earlier bean resolvable by name, and
\* makes GetBeanByType of the type resolve to the new bean.
C18_LastWriterWins ==
  [][(/\ last'.op \in RegisterOps \cup {"RegisterByInterface"}
      /\ last'.name \notin DOMAIN beans
      /\ last'.err # "not_implemented"
      /\ \/ SameTypeRegistered(Container, PoolType(last'.inst))
         \/ last'.typ \in DOMAIN typeMapping)
       => /\ last'.err = ""
          /\ DOMAIN beans' = DOMAIN beans \cup {last'.name}
          /\ \A m \in DOMAIN beans :
               /\ beans'[m] = beans[m]
               /\ beans[m].Singleton
                    => GetBean(Container', m, St(heap', << >>, << >>)).val
                         = RegistrationOf(m).inst
          /\ \A t \in {Elem(PoolType(last'.inst)), Ptr(PoolType(last'.inst))}
                        \cup ({last'.typ} \ {NoType}) :
               /\ typeMapping'[t] = last'.name
               /\ beans'[last'.name].Singleton
                    => GetBeanByType(Container', t, St(heap', << >>, << >>)).val
                         = last'.inst]_vars

C18_Witness ==
  /\ last.op = "RegisterSingleton" /\ last.err = ""
  /\ \E m \in DOMAIN beans :
       /\ m # last.name
       /\ beans[m].Singleton
       /\ beans[m].Type = beans[last.name].Type
       /\ beans[m].Instance # last.inst
  /\ typeMapping[Ptr(PoolType(last.inst))] = last.name

\* the calls that register a bean
AllRegisterOps == RegisterOps \cup {"RegisterBean", "RegisterByInterface"}

\* C19: a successful Stop(), and a Destroy() of the container, leave the
\* registry empty: no name and no type resolves to a bean; a registration
\* made next, under any name, succeeds.
C19_RegistryEmptyAfterStop ==
  [][/\ (last'.op \in {"Stop", "Destroy"} /\ last'.err = "")
          => /\ DOMAIN beans' = {}
             /\ DOMAIN typeMapping' = {}
             /\ \A n \in Names :
                  GetBean(Container', n, St(heap', << >>, << >>)).val = Nil
             /\ \A t \in TypeRefs :
                  GetBeanByType(Container', t, St(heap', << >>, << >>)).val = Nil
     /\ (/\ last.op \in {"Stop", "Destroy"} /\ last.err = ""
         /\ last'.op \in AllRegisterOps /\ last'.err # "not_implemented")
          => /\ last'.err = ""
             /\ DOMAIN beans' = {last'.name}
             /\ beans'[last'.name].Instance = last'.inst]_vars

C19_Witness ==
  /\ last.op \in AllRegisterOps /\ last.err = ""
  /\ DOMAIN beans = {last.name}
  /\ last.name \in Range(destroyOrder)
  /\ last.name \in Range(initOrder)
  /\ ~started

\* C20: a Stop() runs ProcessDestruction only for beans whose
\* initialization the context ran successfully before, whatever way they
\* were registered.
C20_DestroyOnlyInitialized ==
  [][(started /\ ~started')
       => \A i \in DOMAIN log' :
            log'[i].m = "LifecycleStopping" => log'[i].bean \in Range(initOrder)]_vars

\* the beans on which the last call ran ProcessDestruction, in that order
DestroyedBeans ==
  [i \in 1..Cardinality({k \in DOMAIN log : log[k].m = "LifecycleStopping"}) |->
     log[CHOOSE k \in DOMAIN log :
           /\ log[k].m = "LifecycleStopping"
           /\ Cardinality({j \in 1..k : log[j].m = "LifecycleStopping"}) = i].bean]
\* a hook of the bean returned an error during the last call
HookFailed(n) == \E i \in DOMAIN log : log[i].bean = n /\ log[i].err

\* C30: Stop() on a started context returns nil and leaves the context not
\* started, also when the destruction of every bean returned an error.
C30_StopReturnsNil ==
  [][(started /\ last'.op = "Stop") => (last'.err = "" /\ ~started')]_vars

C30_Witness ==
  /\ last.op = "Stop" /\ last.err = "" /\ ~started
  /\ Len(DestroyedBeans) >= 1
  /\ \A i \in DOMAIN DestroyedBeans : HookFailed(DestroyedBeans[i])

\* the entries of a log at which ProcessInitialization / ProcessDestruction
\* of a bean begins
PhaseStarts(lg, phase) == {k \in DOMAIN lg : lg[k].m = phase}
\* the hooks invoked by the ProcessInitialization or ProcessDestruction that
\* begins at entry k of the log
Seg(lg, k) ==
  LET later == {j \in DOMAIN lg : /\ j > k
                                  /\ \/ lg[j].m \in {"LifecycleStarting", "LifecycleStopping"}
                                     \/ lg[j].by = "Container"}
      end == IF later = {} THEN Len(lg) + 1
             ELSE CHOOSE j \in later : \A i \in later : j <= i
  IN SubSeq(lg, k + 1, end - 1)
\* occurrences of x in the sequence
Count(sq, x) == Cardinality({i \in DOMAIN sq : sq[i] = x})
\* the step of ProcessInitialization a hook belongs to
InitStep(m) ==
  CASE m = "SetBeanName" -> 1
    [] m = "Init" -> 2
    [] m = "PostConstruct" -> 3
    [] OTHER -> 4

\* C27: every ProcessInitialization calls SetBeanName, then Init, then
\* PostConstruct only if Init succeeded, then the convention and tag init
\* methods only if both succeeded; nothing runs after a failing hook; a
\* failure is returned as an error naming the bean and leaves initOrder
\* without a new entry for it, a success appends the name exactly once.
C27_InitializationSteps ==
  [][\A k \in PhaseStarts(log', "LifecycleStarting") :
       LET n == log'[k].bean
           seg == Seg(log', k)
           T == beans'[n].Type
           failed == \E i \in DOMAIN seg : seg[i].err
       IN /\ \A i \in DOMAIN seg : seg[i].bean = n /\ seg[i].obj = log'[k].obj
          /\ \A i, j \in DOMAIN seg : i < j => InitStep(seg[i].m) <= InitStep(seg[j].m)
          /\ \A i \in DOMAIN seg : seg[i].err => i = Len(seg)
          /\ MethodSig(T, "SetBeanName") = "arg" => (Len(seg) >= 1 /\ seg[1].m = "SetBeanName")
          /\ MethodSig(T, "Init") = "err" => \E i \in DOMAIN seg : seg[i].m = "Init"
          /\ MethodSig(T, "PostConstruct") = "err"
               => ((\E i \in DOMAIN seg : seg[i].m = "PostConstruct")
                    <=> ~\E i \in DOMAIN seg : seg[i].m = "Init" /\ seg[i].err)
          /\ failed => /\ last'.err = "init" /\ last'.errBean = n
                       /\ Count(initOrder', n) = Count(initOrder, n)
          /\ ~failed => Count(initOrder', n) = Count(initOrder, n) + 1]_vars

C27_Witness ==
  /\ last.op = "Start" /\ last.err = "init"
  /\ \E i \in DOMAIN log : log[i].m = "PostConstruct" /\ log[i].bean # last.errBean
  /\ \E i \in DOMAIN log : log[i].m = "Init" /\ log[i].err /\ log[i].bean = last.errBean
  /\ last.errBean \notin Range(initOrder)
  /\ Len(initOrder) >= 1

\* the step of ProcessDestruction a hook belongs to
DestroyStep(m) ==
  CASE m = "PreDestroy" -> 1
    [] m = "Destroy" -> 2
    [] OTHER -> 3

\* C28: every ProcessDestruction attempts PreDestroy first, runs Destroy
\* only if PreDestroy succeeded and the convention and tag destroy methods
\* only if both succeeded (nothing runs after a failing hook), and prepends
\* the bean name to destroyOrder exactly once, with or without an error.
C28_DestructionSteps ==
  [][\A k \in PhaseStarts(log', "LifecycleStopping") :
       LET n == log'[k].bean
           seg == Seg(log', k)
           T == beans[n].Type
           j == Cardinality({i \in PhaseStarts(log', "LifecycleStopping") : i >= k})
       IN /\ \A i \in DOMAIN seg : seg[i].bean = n /\ seg[i].obj = log'[k].obj
          /\ \A i \in DOMAIN seg : seg[i].err => i = Len(seg)
          /\ \A i, l \in DOMAIN seg : i < l => DestroyStep(seg[i].m) <= DestroyStep(seg[l].m)
          /\ MethodSig(T, "PreDestroy") = "err" => (Len(seg) >= 1 /\ seg[1].m = "PreDestroy")
          /\ MethodSig(T, "Destroy") = "err"
               => ((\E i \in DOMAIN seg : seg[i].m = "Destroy")
                    <=> ~\E i \in DOMAIN seg : seg[i].m = "PreDestroy" /\ seg[i].err)
          /\ Count(destroyOrder', n) = Count(destroyOrder, n) + 1
          /\ Len(destroyOrder') = Len(destroyOrder)
                                    + Cardinality(PhaseStarts(log', "LifecycleStopping"))
          /\ destroyOrder'[j] = n]_vars

C28_Witness ==
  /\ last.op = "Stop" /\ last.err = ""
  /\ \E i \in DOMAIN log :
       /\ log[i].m = "PreDestroy" /\ log[i].err
       /\ log[i].bean \in Range(destroyOrder)
       /\ ~\E l \in DOMAIN log : log[l].bean = log[i].bean /\ log[l].m = "Destroy"
  /\ \E i \in DOMAIN log : log[i].m = "Destroy" /\ log[i].err

\* C29: a ProcessInitialization that succeeds invokes Init exactly once and
\* PostConstruct exactly once on a bean that implements them.
C29_InitHooksOnce ==
  \A k \in PhaseStarts(log, "LifecycleStarting") :
    LET seg == Seg(log, k)
        T == heap[log[k].obj].type
        hooks == [i \in DOMAIN seg |-> seg[i].m]
    IN (log[k].obj \in DOMAIN heap /\ ~\E i \in DOMAIN seg : seg[i].err)
         => /\ MethodSig(T, "Init") = "err" => Count(hooks, "Init") = 1
            /\ MethodSig(T, "PostConstruct") = "err" => Count(hooks, "PostConstruct") = 1

C29_Witness ==
  /\ last.op = "Start" /\ last.err = ""
  /\ \E k \in PhaseStarts(log, "LifecycleStarting") :
       /\ log[k].obj \in DOMAIN heap
       /\ MethodSig(heap[log[k].obj].type, "Init") = "err"
       /\ MethodSig(heap[log[k].obj].type, "PostConstruct") = "err"
       /\ log[k].bean \in Range(initOrder)
  /\ \E k \in PhaseStarts(log, "LifecycleStarting") :
       \E i \in DOMAIN Seg(log, k) : Seg(log, k)[i].m = "CustomInit"

\* the beans a log shows entering the phase, in that order
Processed(lg, phase) ==
  [i \in 1..Cardinality(PhaseStarts(lg, phase)) |->
     lg[CHOOSE k \in PhaseStarts(lg, phase) :
          Cardinality({j \in PhaseStarts(lg, phase) : j <= k}) = i].bean]

\* C26: a Stop() that follows a successful Start() runs ProcessDestruction
\* on the beans in exactly the reverse of the order in which that Start()
\* ran ProcessInitialization on them.
C26_StopReversesStart ==
  [][(last.op = "Start" /\ last.err = "" /\ last'.op = "Stop")
       => Processed(log', "LifecycleStopping")
            = Reverse(Processed(log, "LifecycleStarting"))]_vars

\* C25: Refresh() on a started context runs Stop() and then Start(): every
\* registered bean is destroyed, the registry is cleared, no error is
\* returned and the context is started afterwards; Refresh() on a context
\* that is not started runs Start() only.
C25_RefreshIsStopThenStart ==
  [][last'.op = "Refresh"
       => IF started
          THEN /\ last'.err = ""
               /\ started'
               /\ \A n \in DOMAIN beans :
                    /\ n \in Range(Processed(log', "LifecycleStopping"))
                    /\ Count(destroyOrder', n) = Count(destroyOrder, n) + 1
               /\ DOMAIN beans' = {}
               /\ DOMAIN typeMapping' = {}
               /\ initOrder' = initOrder
          ELSE /\ PhaseStarts(log', "LifecycleStopping") = {}
               /\ destroyOrder' = destroyOrder
               /\ beans' = beans
               /\ typeMapping' = typeMapping
               /\ started' = (last'.err = "")
               /\ last'.err = ""
                    => \A n \in DOMAIN beans :
                         n \in Range(Processed(log', "LifecycleStarting"))]_vars

C25_Witness ==
  /\ last.op = "Refresh" /\ last.err = "" /\ started
  /\ Len(Processed(log, "LifecycleStopping")) >= 2
  /\ DOMAIN beans = {}

\* the registration calls that take the scope from the struct tags
TagScopedOps == {"RegisterBean", "RegisterComponent"}
\* the struct type carries the tag scope:"prototype"
HasScopePrototype(T) == \E i \in DOMAIN StructTags(T) : StructTags(T)[i].scope = "prototype"

\* C24: a bean registered through RegisterBean or RegisterComponent has the
\* scope annotations.IsSingleton gives its type, and prototype scope when
\* its struct carries scope:"prototype".
C24_ScopeTagDecidesScope ==
  [][(/\ last'.op \in TagScopedOps
      /\ last'.name \in DOMAIN beans' \ DOMAIN beans)
       => LET T == beans'[last'.name].Type
          IN /\ beans'[last'.name].Singleton = IsSingleton(T)
             /\ HasScopePrototype(T) => ~beans'[last'.name].Singleton]_vars

\* C23: a panic of the sink's LogEvent aborts no container operation: no
\* call ends in the panic, a registration under a free name stores the bean
\* and binds its interface, and Destroy() empties the registry.
C23_SinkFailureDoesNotAbort ==
  [][/\ last'.err # "panic"
     /\ (/\ last'.op \in RegisterOps \cup {"RegisterByInterface"}
         /\ last'.name \notin DOMAIN beans
         /\ last'.err # "not_implemented")
          => /\ last'.name \in DOMAIN beans'
             /\ last'.typ # NoType => /\ last'.typ \in DOMAIN typeMapping'
                                      /\ typeMapping'[last'.typ] = last'.name
     /\ last'.op = "Destroy" => DOMAIN beans' = {}]_vars

\* --------------------------------------------------- order logs across runs
\* LifecycleManager.Reset through GetLifecycleManager()
Reset ==
  /\ initOrder' = << >>
  /\ destroyOrder' = << >>
  /\ last' = Result("Reset", "", Nil, NoType, "", "", Nil)
  /\ log' = << >>
  /\ heap' = Collect(heap, Nil)
  /\ UNCHANGED <<beans, typeMapping, started, regOrder, regs, starts, logger,
                 mutex, threads>>

\* a context whose application also resets the lifecycle manager
NextReset ==
  \/ RegisterBean
  \/ Start
  \/ Stop
  \/ Reset

SpecReset == Init /\ [][NextReset]_vars

\* C31: Reset() empties initOrder and destroyOrder and leaves the registry
\* alone, and the order logs are per run of the context: after a Start()
\* that succeeds, initOrder lists exactly the beans that Start initialized
\* and destroyOrder is empty, also when the context ran and was stopped
\* before.
C31_OrderLogsPerRun ==
  [][/\ last'.op = "Reset"
          => /\ initOrder' = << >>
             /\ destroyOrder' = << >>
             /\ beans' = beans
             /\ typeMapping' = typeMapping
     /\ (~started /\ last'.op = "Start" /\ last'.err = "")
          => /\ initOrder' = Processed(log', "LifecycleStarting")
             /\ destroyOrder' = << >>]_vars

\* C32: in every reachable state, also while goroutines call
\* RegisterByInterface and Destroy concurrently, every name the type
\* mapping holds is a key of the bean map.
C32_TypeMappingNamesRegistered ==
  \A ty \in DOMAIN typeMapping : typeMapping[ty] \in DOMAIN beans

\* --------------------------------------------- concurrent Start() calls
\* ApplicationContext has no lock of its own: the started flag and the order
\* logs of the lifecycle manager are read and written without
\* synchronization.  A Start() call is the steps below; the append to
\* initOrder is a read of the slice followed by a write of the longer one.

\* a goroutine calls ctx.Start()
InvokeStart(t) ==
  /\ threads[t].pc = "idle"
  /\ threads' = [threads EXCEPT ![t] = [Idle EXCEPT !.op = "Start", !.pc = "check"]]
  /\ UNCHANGED <<beans, typeMapping, heap, mutex, regOrder, regs, log, ConcUnchanged>>

\* the check of the started flag
StartCheck(t) ==
  /\ threads[t].pc = "check"
  /\ threads' = IF started
                THEN [threads EXCEPT ![t].pc = "done", ![t].err = "already_started"]
                ELSE [threads EXCEPT ![t].pc = "wireall"]
  /\ UNCHANGED <<beans, typeMapping, heap, mutex, regOrder, regs, log, ConcUnchanged>>

\* WireAll, with no writer about, and ListBeans
StartWireAll(t) ==
  /\ threads[t].pc = "wireall"
  /\ \E w \in WireAllOutcomes(Container, St(heap, initOrder, destroyOrder)) :
       /\ w.ok
       /\ IF w.err # ""
          THEN threads' = [threads EXCEPT ![t].pc = "done", ![t].err = "wire"]
          ELSE \E beanNames \in MapOrders(DOMAIN beans) :
                 threads' = [threads EXCEPT ![t].pc = "init", ![t].order = beanNames,
                                            ![t].i = 1]
       /\ heap' = ConcCollect(w.heap, threads')
  /\ UNCHANGED <<beans, typeMapping, mutex, regOrder, regs, log, ConcUnchanged>>

\* the next bean of the loop: GetBean and the hooks of ProcessInitialization,
\* up to the read of initOrder
StartProcess(t) ==
  /\ threads[t].pc = "init"
  /\ threads[t].i <= Len(threads[t].order)
  /\ \E g \in {GetBean(Container, threads[t].order[threads[t].i],
                       St(heap, initOrder, destroyOrder))} :
       /\ g.st.ok
       /\ IF g.val = Nil
          THEN /\ threads' = [threads EXCEPT ![t].i = @ + 1]
               /\ heap' = ConcCollect(g.st.heap, threads')
               /\ UNCHANGED log
          ELSE \E r \in {ProcessInitialization(g.st, threads[t].order[threads[t].i], g.val)} :
                 /\ threads' = IF r.err
                               THEN [threads EXCEPT ![t].pc = "done", ![t].err = "init"]
                               ELSE [threads EXCEPT ![t].pc = "record",
                                                    ![t].seen = initOrder]
                 /\ heap' = ConcCollect(r.st.heap, threads')
                 /\ log' = log \o r.st.log
  /\ UNCHANGED <<beans, typeMapping, mutex, regOrder, regs, ConcUnchanged>>

\* the write of initOrder that ends ProcessInitialization
StartRecord(t) ==
  /\ threads[t].pc = "record"
  /\ initOrder' = Append(threads[t].seen, threads[t].order[threads[t].i])
  /\ threads' = [threads EXCEPT ![t].pc = "init", ![t].i = @ + 1, ![t].seen = << >>]
  /\ UNCHANGED <<beans, typeMapping, heap, mutex, regOrder, regs, log,
                 destroyOrder, started, logger, starts, last>>

\* after the last bean the started flag is set and Start() returns nil
StartFinish(t) ==
  /\ threads[t].pc = "init"
  /\ threads[t].i > Len(threads[t].order)
  /\ started' = TRUE
  /\ threads' = [threads EXCEPT ![t].pc = "done"]
  /\ UNCHANGED <<beans, typeMapping, heap, mutex, regOrder, regs, log,
                 initOrder, destroyOrder, logger, starts, last>>

StartStep(t) ==
  \/ InvokeStart(t)
  \/ StartCheck(t)
  \/ StartWireAll(t)
  \/ StartProcess(t)
  \/ StartRecord(t)
  \/ StartFinish(t)

NextStart == \E t \in Threads : StartStep(t)

SpecStart == InitConc /\ [][NextStart]_vars /\ \A t \in Threads : WF_vars(StartStep(t))

\* the Start() calls that have returned
StartCalls == {t \in Threads : threads[t].op = "Start" /\ threads[t].pc = "done"}

\* C33: when goroutines call Start() concurrently on a context that is not
\* started, at most one of them initializes: every init hook of a bean runs
\* at most once, a name is in initOrder at most once, and of the calls that
\* returned at most one did not return the already-started error.
C33_OneStartInitializes ==
  /\ \A o \in Pool : \A m \in InitHooks : Calls(o, m) <= 1
  /\ \A n \in Names : Count(initOrder, n) <= 1
  /\ Cardinality({t \in StartCalls : threads[t].err # "already_started"}) <= 1

\* C34: during one Start() that succeeds no bean instance has an init hook
\* run more than once, also when the instance is registered under two names.
C34_InstanceInitializedOnce ==
  (last.op = "Start" /\ last.err = "")
    => \A o \in DOMAIN heap : \A m \in InitHooks : Calls(o, m) <= 1

\* C35: a bean whose initialization succeeded is not initialized again
\* unless a Stop() intervened: a Start() that retries after a failed
\* Start() runs ProcessInitialization on no bean already in initOrder, and
\* as long as no bean was destroyed initOrder holds no name twice.
C35_NoReinitializationOnRetry ==
  [][/\ (/\ last.op = "Start" /\ last.err # "" /\ ~started
         /\ last'.op = "Start")
          => \A n \in Range(initOrder) :
               n \notin Range(Processed(log', "LifecycleStarting"))
     /\ destroyOrder' = << >> => \A n \in Names : Count(initOrder', n) <= 1]_vars

\* C36: after Refresh() on a started context every bean registered before
\* it is still registered (HasBean true, GetBean non-nil) and was
\* initialized again by the Start() that Refresh performs.
C36_RefreshKeepsBeans ==
  [][(started /\ last'.op = "Refresh")
       => \A n \in DOMAIN beans :
            /\ n \in DOMAIN beans'
            /\ GetBean(Container', n, St(heap', initOrder', destroyOrder')).val # Nil
            /\ \E k \in PhaseStarts(log', "LifecycleStarting") :
                 /\ log'[k].bean = n
                 /\ \A j \in PhaseStarts(log', "LifecycleStopping") : j < k]_vars

\* a context whose beans the application looks up
NextLookup ==
  \/ RegisterBean
  \/ ContainerRegisterPrototype
  \/ Start
  \/ GetBeanCall

SpecLookup == Init /\ [][NextLookup]_vars

\* C37: after a Start() that succeeded, the instance GetBean(n) returns, for
\* a singleton or a prototype name, is an instance on which that Start ran
\* ProcessInitialization.
C37_LookedUpBeansInitialized ==
  [][(/\ last.op = "Start" /\ last.err = ""
      /\ last'.op = "GetBean" /\ last'.ret # Nil)
       => /\ last'.ret \in DOMAIN heap
          /\ \E k \in PhaseStarts(log, "LifecycleStarting") : log[k].obj = last'.ret]_vars

\* C38: when ApplicationContext.RegisterBean returns an error the registry
\* is as before the call and the bean is not registered under the name,
\* also when the error comes from the immediate initialization on a started
\* context.
C38_FailedRegisterBeanLeavesRegistry ==
  [][(last'.op = "RegisterBean" /\ last'.err # "")
       => /\ beans' = beans
          /\ typeMapping' = typeMapping
          /\ ~(/\ last'.name \in DOMAIN beans'
               /\ beans'[last'.name].Instance = last'.inst)]_vars

\* ------------------------------------------------ injection events
\* what the application registers before it wires an instance by hand
WireInputs == {<<"a", 1>>, <<"a", 5>>, <<"c", 3>>}
\* the instances the application hands to AutoWire
AutoWireInputs == {4}

\* the state InjectDependencies is in after field i, whose lookup gave r
AfterField(c, instance, i, r) ==
  LET f == Fields(r.st.heap[instance].type)[i]
  IN IF r.st.err = "panic" THEN r.st
     ELSE IF r.val # Nil
     THEN IF AssignableTo(r.st.heap[r.val].type, f.ftype)
          THEN [r.st EXCEPT !.heap[instance].fields[i] = r.val,
                            !.err = IF LogEventPanics(c) THEN "panic" ELSE @]
          ELSE r.st
     ELSE [r.st EXCEPT !.err = IF LogEventPanics(c) THEN "panic" ELSE @]

\* the event InjectDependencies hands to the sink for field i, whose lookup
\* gave r: DependencyInjected after field.Set, DependencyInjectionFailed for
\* a nil dependency, nothing for a dependency that is not assignable
FieldEvents(instance, i, r) ==
  LET f == Fields(r.st.heap[instance].type)[i]
  IN IF r.st.err = "panic" THEN << >>
     ELSE IF r.val # Nil
     THEN IF AssignableTo(r.st.heap[r.val].type, f.ftype)
          THEN << [event |-> "DependencyInjected", obj |-> instance, field |-> i] >>
          ELSE << >>
     ELSE << [event |-> "DependencyInjectionFailed", obj |-> instance, field |-> i] >>

\* the events of the field loop of InjectDependencies, from field i on
RECURSIVE InjectEventsFrom(_, _, _, _)
InjectEventsFrom(c, instance, i, st) ==
  LET fs == Fields(st.heap[instance].type)
  IN IF i > Len(fs) \/ ~st.ok \/ st.err = "panic"
     THEN << >>
     ELSE IF fs[i].tag = "" \/ ~fs[i].settable
          THEN InjectEventsFrom(c, instance, i + 1, st)
          ELSE With(IF fs[i].tag # "true"
                    THEN GetBean(c, fs[i].tag, st)
                    ELSE GetBeanByType(c, fs[i].ftype, st),
                    LAMBDA r :
                      FieldEvents(instance, i, r)
                        \o InjectEventsFrom(c, instance, i + 1,
                                            AfterField(c, instance, i, r)))

\* RegisterSingleton of a bean of any type under a name fields refer to
RegisterWired ==
  \E in \in WireInputs :
    Registered("RegisterSingleton", in[1], in[2], TRUE)

\* ApplicationContext.AutoWire: InjectDependencies on an instance of the
\* application; the log holds the events the sink received
AutoWire ==
  \E instance \in AutoWireInputs :
    \E s \in {InjectDependencies(Container, instance, St(heap, initOrder, destroyOrder))} :
      /\ s.ok
      /\ heap' = Collect(s.heap, Nil)
      /\ log' = InjectEventsFrom(Container, instance, 1, St(heap, initOrder, destroyOrder))
      /\ last' = Result("AutoWire", "", instance, NoType, s.err, "", Nil)
      /\ UNCHANGED <<beans, typeMapping, initOrder, destroyOrder, started,
                     regOrder, regs, starts, logger, mutex, threads>>

\* a container whose application wires instances by hand
NextWire ==
  \/ RegisterWired
  \/ RegisterPrototype
  \/ RegisterByInterface
  \/ AutoWire

SpecWire == Init /\ [][NextWire]_vars

\* the events of one kind the last call emitted for field i of instance o
EventsOf(o, i, event) ==
  {k \in DOMAIN log : log[k].obj = o /\ log[k].field = i /\ log[k].event = event}

\* C39: for every settable inject-tagged field InjectDependencies processes
\* exactly one of DependencyInjected and DependencyInjectionFailed is
\* emitted, and the field is non-zero afterwards iff DependencyInjected was
\* emitted; a field left unset because the bean found is not assignable to
\* it is reported as failed.
C39_OneEventPerField ==
  last.op = "AutoWire"
    => \A i \in DOMAIN Fields(heap[last.inst].type) :
         LET f == Fields(heap[last.inst].type)[i]
             injected == Cardinality(EventsOf(last.inst, i, "DependencyInjected"))
             failed == Cardinality(EventsOf(last.inst, i, "DependencyInjectionFailed"))
         IN (f.tag # "" /\ f.settable)
              => /\ injected + failed = 1
                 /\ heap[last.inst].fields[i] # Nil <=> injected = 1
                 /\ heap[last.inst].fields[i] = Nil => failed = 1

\* ------------------------------------------------ RegisterComponents
\* the instances the application hands to RegisterComponents, and the
\* argument lists it builds from them
ScanInputs == {1, 5, 6}
ComponentLists == UNION {[1..n -> ScanInputs] : n \in 1..MaxComponents}

\* scanner.ScanComponent: the component name of the type, then
\* RegisterSingleton or RegisterPrototype under it
ScanComponent(c, h, instance) ==
  LET typ == h[instance].type
      componentName == getComponentName(typ)
  IN IF componentName = ""
     THEN [c |-> c, err |-> "not_component"]
     ELSE registerBean(c, h, componentName, instance, isSingleton(typ))

\* ScanAndRegister that goes on after a component failed and returns the
\* last error
RECURSIVE ScanAndRegisterAll(_, _, _, _)
ScanAndRegisterAll(c, h, components, i) ==
  IF i > Len(components)
  THEN [c |-> c, err |-> "", registered |-> << >>]
  ELSE LET r == ScanComponent(c, h, components[i])
           rest == ScanAndRegisterAll([beans |-> r.c.beans,
                                       typeMapping |-> r.c.typeMapping,
                                       logger |-> c.logger], h, components, i + 1)
       IN [c |-> rest.c,
           err |-> IF rest.err # "" THEN rest.err ELSE r.err,
           registered |-> (IF r.err = "" THEN << i >> ELSE << >>) \o rest.registered]

\* scanner.ScanAndRegister from component i on: the container afterwards,
\* the error, and the indexes of the components it registered
RECURSIVE ScanAndRegister(_, _, _, _)
ScanAndRegister(c, h, components, i) ==
  IF i > Len(components)
  THEN [c |-> c, err |-> "", registered |-> << >>]
  ELSE LET r == ScanComponent(c, h, components[i])
       IN IF r.err # ""
          THEN [c |-> [beans |-> r.c.beans, typeMapping |-> r.c.typeMapping,
                       logger |-> c.logger],
                err |-> IF r.err = "panic" THEN "panic" ELSE "scan",
                registered |-> << >>]
          ELSE LET rest == ScanAndRegister([beans |-> r.c.beans,
                                            typeMapping |-> r.c.typeMapping,
                                            logger |-> c.logger], h, components, i + 1)
               IN [c |-> rest.c, err |-> rest.err,
                   registered |-> << i >> \o rest.registered]

\* ApplicationContext.RegisterComponents; the log holds the arguments
RegisterComponents ==
  \E components \in ComponentLists :
    \E r \in {ScanAndRegister(Container, heap, components, 1)} :
      /\ regs + Len(r.registered) <= MaxRegs
      /\ beans' = r.c.beans
      /\ typeMapping' = r.c.typeMapping
      /\ regOrder' = regOrder \o
           [k \in DOMAIN r.registered |->
              [name |-> getComponentName(heap[components[r.registered[k]]].type),
               inst |-> components[r.registered[k]],
               singleton |-> isSingleton(heap[components[r.registered[k]]].type),
               iface |-> "", late |-> started]]
      /\ regs' = regs + Len(r.registered)
      /\ last' = Result("RegisterComponents", "", Nil, NoType, r.err, "", Nil)
      /\ log' = [i \in DOMAIN components |-> [obj |-> components[i]]]
      /\ heap' = Collect(heap, Nil)
      /\ UNCHANGED <<initOrder, destroyOrder, started, starts, logger, mutex, threads>>

\* a context whose components are registered in batches
NextComponents ==
  \/ RegisterComponents
  \/ RegisterComponent
  \/ GetBeanCall

SpecComponents == Init /\ [][NextComponents]_vars

\* the component name the scanner gives the instance
NameOf(o) == getComponentName(PoolType(o))
\* component i of the argument list cannot be registered after the ones
\* before it: it is no component, or its name is in use
Unregistrable(bs, components, i) ==
  \/ NameOf(components[i]) = ""
  \/ NameOf(components[i]) \in DOMAIN bs
  \/ \E j \in 1..(i - 1) : NameOf(components[j]) = NameOf(components[i])
\* the index of the first such component, or one past the last
FirstFailing(bs, components) ==
  IF \E i \in DOMAIN components : Unregistrable(bs, components, i)
  THEN CHOOSE i \in DOMAIN components :
         /\ Unregistrable(bs, components, i)
         /\ \A j \in 1..(i - 1) : ~Unregistrable(bs, components, j)
  ELSE Len(components) + 1

\* C40: RegisterComponents processes its arguments in order and stops at
\* the first one that fails: the components before it are registered and
\* stay so, the failing one and those after it are not registered by the
\* call, and an error is returned exactly when one failed.
C40_StopsAtFirstFailure ==
  [][last'.op = "RegisterComponents"
       => LET components == [i \in DOMAIN log' |-> log'[i].obj]
              k == FirstFailing(beans, components)
          IN /\ (last'.err # "") <=> (k <= Len(components))
             /\ DOMAIN beans' = DOMAIN beans \cup {NameOf(components[j]) : j \in 1..(k - 1)}
             /\ \A n \in DOMAIN beans : beans'[n] = beans[n]
             /\ \A j \in 1..(k - 1) :
                  /\ beans'[NameOf(components[j])].Instance = components[j]
                  /\ typeMapping'[Ptr(PoolType(components[j]))] = NameOf(components[j])]_vars

C40_Witness ==
  /\ last.op = "RegisterComponents" /\ last.err # ""
  /\ Len(log) = 3
  /\ NameOf(log[1].obj) \in DOMAIN beans /\ beans[NameOf(log[1].obj)].Instance = log[1].obj
  /\ NameOf(log[2].obj) = ""
  /\ NameOf(log[3].obj) \notin {"", NameOf(log[1].obj)}
  /\ NameOf(log[3].obj) \notin DOMAIN beans
  /\ regs = 1

====
